---- MODULE Spec2Model ----
(***************************************************************************)
(* A model of pandas-genomics: the PLINK BED codec (io/plink), the         *)
(* GenotypeArray column store (arrays/genotype_array.py) and the Variant   *)
(* allele palette (scalars.py).                                            *)
(*                                                                         *)
(* A row of a diploid column is a pair <<allele1, allele2>> of allele      *)
(* indices; a palette is a sequence of allele strings (index 0 of the      *)
(* code is position 1 of the sequence).  A function that can raise returns *)
(* a record whose field ok says whether it returned normally.              *)
(***************************************************************************)
EXTENDS Integers, Sequences, FiniteSets, TLC

VARIABLES
    pc,           \* which program is running and how far it got
    gt_rows,      \* PLINK write side: the column's stored allele indices
    input_rows,   \* PLINK write side: the rows the column held before the call
    plink_bits,   \* PLINK write side: what gt_array_to_plink_bits returned
    bed_file,     \* PLINK files: the bytes of the .bed file
    variant_list, \* PLINK files: the palettes of the rows of the .bim file
    num_samples,  \* PLINK files: the number of rows of the .fam file
    loaded,       \* PLINK read side: what load_genotypes / create_gt_array returned
    variants,     \* heap of Variant objects: VarId -> Variant
    arrays,       \* heap of GenotypeArray objects: ArrId -> array or NoArray
    last,         \* the last GenotypeArray / Variant call: arguments, pre-state, outcome
    palette,      \* Variant under test: its alleles list
    palette_log   \* Variant under test: the last call on it

plinkVars == <<gt_rows, input_rows, plink_bits, bed_file, variant_list, num_samples, loaded>>
arrayVars == <<variants, arrays, last>>
variantVars == <<palette, palette_log>>
vars == <<pc, gt_rows, input_rows, plink_bits, bed_file, variant_list, num_samples,
          loaded, variants, arrays, last, palette, palette_log>>

-----------------------------------------------------------------------------
(* Program constants *)

MISSING_IDX == 255

CORRECT_FIRST_BYTES == <<108, 27, 1>>

(* Bounds of the model *)

MaxSamples == 5

MaxVariants == 2

-----------------------------------------------------------------------------
(* numpy helpers used by the codec *)

Min(a, b) == IF a < b THEN a ELSE b

\* np.unpackbits: every byte becomes its 8 bits, most significant first
unpackbits(bytes) ==
    [i \in 1..(8 * Len(bytes)) |->
        (bytes[((i - 1) \div 8) + 1] \div (2 ^ (7 - ((i - 1) % 8)))) % 2]

\* reshape(-1, 2) of a flat sequence: consecutive pairs
reshape_pairs(flat) ==
    [g \in 1..(Len(flat) \div 2) |-> <<flat[2 * g - 1], flat[2 * g]>>]

\* np.flip(x.reshape(-1, 4, 2), axis=1).reshape(-1, 2): the order of the rows
\* is reversed inside every group of four
flip_groups(rows) ==
    [g \in 1..Len(rows) |-> rows[4 * ((g - 1) \div 4) + (3 - ((g - 1) % 4)) + 1]]

\* x.flatten() of an (n, 2) array
flatten_pairs(rows) ==
    [i \in 1..(2 * Len(rows)) |-> rows[((i - 1) \div 2) + 1][((i - 1) % 2) + 1]]

\* np.packbits of a flat sequence whose length is a multiple of 8: every
\* nonzero element is a 1 bit, the first element is the most significant bit
packbits(flat) ==
    [b \in 1..(Len(flat) \div 8) |->
        LET bit(j) == IF flat[8 * (b - 1) + j] # 0 THEN 1 ELSE 0
        IN  128 * bit(1) + 64 * bit(2) + 32 * bit(3) + 16 * bit(4)
            + 8 * bit(5) + 4 * bit(6) + 2 * bit(7) + bit(8)]

-----------------------------------------------------------------------------
(* Variant: the methods GenotypeArray.set_reference calls *)

is_valid_allele_idx(alleles, idx) ==
    IF idx = MISSING_IDX THEN TRUE
    ELSE IF idx < 0 THEN FALSE
    ELSE IF idx > Len(alleles) - 1 THEN FALSE
    ELSE TRUE

\* a lookup that returns the last position of the allele in the palette
list_index_last(alleles, allele) ==
    (CHOOSE i \in 1..Len(alleles) :
        alleles[i] = allele /\ \A j \in (i + 1)..Len(alleles) : alleles[j] # allele) - 1

\* list.index: the 0-based position of the first occurrence
list_index(alleles, allele) ==
    (CHOOSE i \in 1..Len(alleles) :
        alleles[i] = allele /\ \A j \in 1..(i - 1) : alleles[j] # allele) - 1

\* Variant.get_allele_idx(allele, add=False) for a string allele
get_allele_idx(alleles, allele) ==
    IF \E i \in 1..Len(alleles) : alleles[i] = allele
    THEN [ok |-> TRUE, idx |-> list_index(alleles, allele)]
    ELSE [ok |-> FALSE, idx |-> MISSING_IDX]

-----------------------------------------------------------------------------
(* GenotypeArray.set_reference *)

StrTarget(s) == [kind |-> "str", val |-> s]
IntTarget(i) == [kind |-> "int", val |-> i]

\* only the second palette assignment: the old reference is not stored at
\* the position of the chosen allele
swap_palette_ref_only(alleles, allele_idx, allele_str) ==
    <<allele_str>> \o Tail(alleles)

\* the two palette assignments: alleles[allele_idx] = old_ref, then the new
\* reference replaces position 0
swap_palette(alleles, allele_idx, allele_str) ==
    LET replaced == [alleles EXCEPT ![allele_idx + 1] = alleles[1]]
    IN  <<allele_str>> \o Tail(replaced)

\* masks computed after the first pair of assignments: the old reference and
\* the chosen allele both end up as 0
swap_stored_late_masks(data, allele_idx) ==
    [k \in 1..Len(data) |->
        [f \in 1..2 |->
            IF data[k][f] = 0 \/ data[k][f] = allele_idx THEN 0 ELSE data[k][f]]]

\* the four masked assignments on the stored records; the masks are computed
\* before any of them is applied
swap_stored(data, allele_idx) ==
    [k \in 1..Len(data) |->
        [f \in 1..2 |->
            IF data[k][f] = 0 THEN allele_idx
            ELSE IF data[k][f] = allele_idx THEN 0
            ELSE data[k][f]]]

set_reference(alleles, data, allele) ==
    LET unchanged(okv) == [ok |-> okv, alleles |-> alleles, data |-> data]
        resolved ==
            IF allele.kind = "str"
            THEN get_allele_idx(alleles, allele.val)
            ELSE IF ~is_valid_allele_idx(alleles, allele.val)
                 THEN [ok |-> FALSE, idx |-> MISSING_IDX]
                 \* self.variant.alleles[allele] raises IndexError for MISSING_IDX
                 ELSE IF allele.val > Len(alleles) - 1
                      THEN [ok |-> FALSE, idx |-> MISSING_IDX]
                      ELSE [ok |-> TRUE, idx |-> allele.val]
    IN  IF ~resolved.ok THEN unchanged(FALSE)
        ELSE IF resolved.idx = 0 THEN unchanged(TRUE)
        ELSE [ok |-> TRUE,
              alleles |-> swap_palette(alleles, resolved.idx, alleles[resolved.idx + 1]),
              data |-> swap_stored(data, resolved.idx)]

-----------------------------------------------------------------------------
(* PLINK write side: to_plink.py *)

\* InfoMixin.is_missing for one row
is_missing(row) == row[1] = MISSING_IDX /\ row[2] = MISSING_IDX

\* allele_ids[missing] = (0, 1)
replace_missing(rows) ==
    [k \in 1..Len(rows) |-> IF is_missing(rows[k]) THEN <<0, 1>> ELSE rows[k]]

\* het_gt = allele_ids.sum(axis=1) == 1; allele_ids[het_gt] = (1, 0)
replace_het(rows) ==
    [k \in 1..Len(rows) |-> IF rows[k][1] + rows[k][2] = 1 THEN <<1, 0>> ELSE rows[k]]

\* the array allele_ids after the two in-place replacements
plink_allele_ids(rows) == replace_het(replace_missing(rows))

\* the column after gt_array_to_plink_bits.  The two replacements are made in
\* the array that gt_series.array.allele_idxs returned: they reach the column
\* when that array is the column's storage (is_storage) and do not when it is
\* an array of its own; the source does not say which
column_after_plink_bits(rows, is_storage) ==
    IF is_storage THEN plink_allele_ids(rows) ELSE rows

pad_samples(n) == n % 4

gt_array_to_plink_bits(rows) ==
    LET ids == plink_allele_ids(rows)
        padded == ids \o [i \in 1..pad_samples(Len(ids)) |-> <<0, 0>>]
    IN  \* reshape((-1, 4, 2)) raises unless the rows fill whole groups of four
        IF Len(padded) % 4 # 0
        THEN [ok |-> FALSE, bytes |-> <<>>]
        ELSE [ok |-> TRUE, bytes |-> packbits(flatten_pairs(flip_groups(padded)))]

-----------------------------------------------------------------------------
(* PLINK read side: from_plink.py *)

\* the two masked replacements of create_gt_array on one decoded bit pair
decode_pair(p) ==
    LET after_missing == IF p = <<0, 1>> THEN <<MISSING_IDX, MISSING_IDX>> ELSE p
    IN  IF after_missing = <<1, 0>> THEN <<0, 1>> ELSE after_missing

\* the rows (allele_idxs) of the GenotypeArray built from one variant record
create_gt_array(n, variant_gt_bytes) ==
    LET genotypes == flip_groups(reshape_pairs(unpackbits(variant_gt_bytes)))
        kept == Min(n, Len(genotypes))
    IN  [k \in 1..kept |-> decode_pair(genotypes[k])]

chunk_size(n) == (n \div 4) + (IF n % 4 > 0 THEN 1 ELSE 0)

\* Variant.make_genotype_from_plink_bits: the scalar form of the same
\* decoding.  Any other string raises, and so does Genotype.__post_init__ when
\* the Variant has no allele of index a1 or a2
make_genotype_from_plink_bits(alleles, plink_bits_str) ==
    LET idxs == IF plink_bits_str = "00" THEN <<0, 0>>
                ELSE IF plink_bits_str = "01" THEN <<255, 255>>
                ELSE IF plink_bits_str = "10" THEN <<0, 1>>
                ELSE IF plink_bits_str = "11" THEN <<1, 1>>
                ELSE <<>>
    IN  IF idxs = <<>> THEN [ok |-> FALSE, idxs |-> <<>>]
        ELSE IF ~is_valid_allele_idx(alleles, idxs[1]) THEN [ok |-> FALSE, idxs |-> <<>>]
        ELSE IF ~is_valid_allele_idx(alleles, idxs[2]) THEN [ok |-> FALSE, idxs |-> <<>>]
        ELSE [ok |-> TRUE, idxs |-> idxs]

\* a check that looks at the first two bytes only
first_bytes_match_two(file) ==
    Len(file) >= 2 /\ SubSeq(file, 1, 2) = SubSeq(CORRECT_FIRST_BYTES, 1, 2)

\* (gt_bytes[:3] == CORRECT_FIRST_BYTES).all(); a file shorter than three bytes
\* makes the comparison itself raise
first_bytes_match(file) ==
    Len(file) >= 3 /\ SubSeq(file, 1, 3) = CORRECT_FIRST_BYTES

\* load_genotypes: the palettes of variant_list, the file's bytes
load_genotypes(file, vlist, n, swap_alleles) ==
    LET failed == [ok |-> FALSE, arrays |-> <<>>]
        body == SubSeq(file, 4, Len(file))
        chunk == chunk_size(n)
        one(v) ==
            LET rows == create_gt_array(n, SubSeq(body, chunk * (v - 1) + 1, chunk * v))
            IN  IF swap_alleles
                THEN set_reference(vlist[v], rows, IntTarget(1))
                ELSE [ok |-> TRUE, alleles |-> vlist[v], data |-> rows]
    IN  IF ~first_bytes_match(file) THEN failed
        \* reshape(-1, chunk_size)
        ELSE IF chunk = 0 \/ Len(body) % chunk # 0 THEN failed
        \* gt_bytes[v_idx]
        ELSE IF Len(vlist) > Len(body) \div chunk THEN failed
        ELSE IF \E v \in 1..Len(vlist) : ~one(v).ok THEN failed
        ELSE [ok |-> TRUE,
              arrays |-> [v \in 1..Len(vlist) |->
                            [alleles |-> one(v).alleles, data |-> one(v).data]]]

-----------------------------------------------------------------------------
(* Values of the variables a program does not use *)

NoBits == [status |-> "none", bytes |-> <<>>]
NoLoad == [status |-> "none", swap |-> FALSE, arrays |-> <<>>]
NoTarget == [kind |-> "none", val |-> 0]
NoCall ==
    [op |-> "none", array |-> 0, other |-> 0, ok |-> TRUE, n |-> 0, target |-> NoTarget,
     pre_alleles |-> <<>>, pre_data |-> <<>>, prev_target |-> NoTarget,
     na_sentinel |-> 0, codes |-> <<>>, uniques |-> <<>>, encoded |-> <<>>,
     alpha_value |-> "", ref_allele |-> <<>>, alt_allele |-> <<>>, result |-> <<>>,
     string |-> <<>>]

IdlePlink ==
    /\ gt_rows = <<>> /\ input_rows = <<>> /\ plink_bits = NoBits
    /\ bed_file = <<>> /\ variant_list = <<>> /\ num_samples = 0 /\ loaded = NoLoad

-----------------------------------------------------------------------------
(* The PLINK codec as a state machine.  A run starts either from a column  *)
(* of a DataFrame that is about to be written, or from the file trio of a  *)
(* data set that is about to be read.                                      *)

MaxBodyBytes == 2

MaxCalls == 2

\* rows a diploid column can hold for a variant with one alternate allele
RowInputs ==
    { <<0, 0>>, <<0, 1>>, <<1, 1>>, <<MISSING_IDX, MISSING_IDX>>,
      <<0, MISSING_IDX>>, <<1, MISSING_IDX>> }

\* record bytes: between them every 2-bit code appears at every sample position
ByteInputs == { 27, 228, 78, 177 }

\* the first three bytes of a .bed file: the correct ones and one wrong byte at
\* each position
HeaderInputs == { <<108, 27, 1>>, <<0, 27, 1>>, <<108, 0, 1>>, <<108, 27, 0>> }

\* palettes create_variant builds from a .bim row: [allele2, allele1], or
\* [allele2] when allele1 is "0"
BimPalettes == { <<"G", "A">>, <<"G">> }

SeqsOf(S, n) == [1..n -> S]

InitColumn ==
    /\ pc = "column"
    /\ \E n \in 1..MaxSamples : gt_rows \in SeqsOf(RowInputs, n)
    /\ input_rows = gt_rows
    /\ num_samples = Len(gt_rows)
    /\ plink_bits = NoBits
    /\ bed_file = <<>>
    /\ variant_list = << <<"G", "A">> >>
    /\ loaded = NoLoad

InitBed ==
    /\ pc = "bed"
    /\ gt_rows = <<>> /\ input_rows = <<>> /\ plink_bits = NoBits
    /\ num_samples \in 1..MaxSamples
    /\ \E nv \in 1..MaxVariants :
          /\ nv * chunk_size(num_samples) <= MaxBodyBytes
          /\ variant_list \in SeqsOf(BimPalettes, nv)
          /\ \E header \in HeaderInputs :
             \E body \in SeqsOf(ByteInputs, nv * chunk_size(num_samples)) :
                bed_file = header \o body
    /\ loaded = NoLoad

IdleArrays == variants = <<>> /\ arrays = <<>> /\ last = NoCall
IdleVariant == palette = <<>> /\ palette_log = NoCall

InitPlink == (InitColumn \/ InitBed) /\ IdleArrays /\ IdleVariant

\* gt_array_to_plink_bits(gt_series)
GtArrayToPlinkBits(is_storage) ==
    /\ pc = "column"
    /\ LET r == gt_array_to_plink_bits(gt_rows)
       IN  /\ plink_bits' = [status |-> IF r.ok THEN "ok" ELSE "error", bytes |-> r.bytes]
           /\ pc' = IF r.ok THEN "written" ELSE "write_failed"
    /\ gt_rows' = column_after_plink_bits(gt_rows, is_storage)
    /\ UNCHANGED <<input_rows, bed_file, variant_list, num_samples, loaded>>
    /\ UNCHANGED <<arrayVars, variantVars>>

\* create_gt_array(num_samples, variant_gt_bytes, variant) on the bytes written
CreateGtArray ==
    /\ pc = "written"
    /\ loaded' = [status |-> "ok", swap |-> FALSE,
                  arrays |-> << [alleles |-> variant_list[1],
                                 data |-> create_gt_array(num_samples, plink_bits.bytes),
                                 calls |-> <<>>] >>]
    /\ pc' = "decoded"
    /\ UNCHANGED <<gt_rows, input_rows, plink_bits, bed_file, variant_list, num_samples>>
    /\ UNCHANGED <<arrayVars, variantVars>>

\* load_genotypes(bed_file, variant_list, num_samples, swap_alleles)
LoadGenotypes(swap_alleles) ==
    /\ pc = "bed"
    /\ LET r == load_genotypes(bed_file, variant_list, num_samples, swap_alleles)
       IN  /\ loaded' = [status |-> IF r.ok THEN "ok" ELSE "error",
                         swap |-> swap_alleles,
                         arrays |-> [v \in 1..Len(r.arrays) |->
                                       [alleles |-> r.arrays[v].alleles,
                                        data |-> r.arrays[v].data,
                                        calls |-> <<>>]]]
           /\ pc' = IF r.ok THEN "loaded" ELSE "load_failed"
    /\ UNCHANGED <<gt_rows, input_rows, plink_bits, bed_file, variant_list, num_samples>>
    /\ UNCHANGED <<arrayVars, variantVars>>

\* column.genomics.set_reference(allele) on a loaded column
SetReferenceLoaded(v, allele) ==
    /\ pc = "loaded"
    /\ v \in 1..Len(loaded.arrays)
    /\ Len(loaded.arrays[v].calls) < MaxCalls
    /\ LET a == loaded.arrays[v]
           r == set_reference(a.alleles, a.data, allele)
       IN  /\ r.ok
           /\ loaded' = [loaded EXCEPT !.arrays[v] =
                            [alleles |-> r.alleles, data |-> r.data,
                             calls |-> Append(a.calls, allele)]]
    /\ UNCHANGED <<pc, gt_rows, input_rows, plink_bits, bed_file, variant_list, num_samples>>
    /\ UNCHANGED <<arrayVars, variantVars>>

NextPlink ==
    \/ \E is_storage \in BOOLEAN : GtArrayToPlinkBits(is_storage)
    \/ CreateGtArray
    \/ \E swap_alleles \in BOOLEAN : LoadGenotypes(swap_alleles)
    \/ \E v \in 1..MaxVariants, i \in 0..1 : SetReferenceLoaded(v, IntTarget(i))

SpecPlink == InitPlink /\ [][NextPlink]_vars

-----------------------------------------------------------------------------
(* GenotypeArray: a heap of Variant objects and of arrays.  An array holds *)
(* a reference to its Variant (through its dtype) and its own records.     *)

MaxArrays == 2

MaxLen == 2

\* Variant.is_same_variant: the allele list is not compared
is_same_variant(v, w) ==
    v.id = w.id /\ v.chromosome = w.chromosome /\ v.position = w.position

\* Genotype.__post_init__: the two indices are sorted, then validated
Genotype(alleles, a1, a2) ==
    LET lo == Min(a1, a2)
        hi == IF a1 < a2 THEN a2 ELSE a1
    IN  [ok |-> is_valid_allele_idx(alleles, lo) /\ is_valid_allele_idx(alleles, hi),
         idxs |-> <<lo, hi>>]

\* the Genotypes that can exist for Variant object vid: sorted, valid indices
GenotypesOf(heap, vid) ==
    { [variant |-> vid, idxs |-> <<a, b>>] :
        <<a, b>> \in { p \in ((0..(Len(heap[vid].alleles) - 1)) \cup {MISSING_IDX})
                              \X ((0..(Len(heap[vid].alleles) - 1)) \cup {MISSING_IDX}) :
                        p[1] <= p[2] } }

\* GenotypeArray._from_sequence(scalars, dtype): dtype is a Variant reference
\* or 0 for None
from_sequence(heap, scalars, dtype) ==
    LET vid == IF dtype = 0 THEN scalars[1].variant ELSE dtype
    IN  \* len(scalars) == 0: an empty array with the dtype that was passed
        IF Len(scalars) = 0 THEN [ok |-> TRUE, variant |-> dtype, data |-> <<>>]
        ELSE IF \E k \in 1..Len(scalars) : ~is_same_variant(heap[vid], heap[scalars[k].variant])
        THEN [ok |-> FALSE, variant |-> vid, data |-> <<>>]
        ELSE [ok |-> TRUE, variant |-> vid,
              data |-> [k \in 1..Len(scalars) |-> scalars[k].idxs]]

\* GenotypeArray.__setitem__(key, value) for an integer key and a Genotype
setitem_genotype(data, key, value) ==
    IF key < -Len(data) \/ key >= Len(data)
    THEN [ok |-> FALSE, data |-> data]
    ELSE [ok |-> TRUE,
          data |-> [data EXCEPT ![(IF key < 0 THEN key + Len(data) ELSE key) + 1] = value.idxs]]

\* GenotypeArray.__setitem__(key, value) for a boolean mask and a GenotypeArray:
\* the selected rows take the value's rows in order (one row is broadcast)
setitem_array(data, mask, value_data) ==
    LET picked == { k \in 1..Len(data) : mask[k] }
        rank(k) == Cardinality({ j \in picked : j <= k })
    IN  IF Len(mask) # Len(data) THEN [ok |-> FALSE, data |-> data]
        ELSE IF Len(value_data) # 1 /\ Len(value_data) # Cardinality(picked)
        THEN [ok |-> FALSE, data |-> data]
        ELSE [ok |-> TRUE,
              data |-> [k \in 1..Len(data) |->
                          IF k \in picked
                          THEN value_data[IF Len(value_data) = 1 THEN 1 ELSE rank(k)]
                          ELSE data[k]]]

\* GenotypeArray.take(indexer, allow_fill): every row goes through
\* __getitem__, which builds a Genotype, and the result is rebuilt by
\* _from_sequence with the array's own dtype
take(alleles, data, indexer, allow_fill) ==
    LET item(loc) ==
            IF allow_fill /\ loc = -1 THEN [ok |-> TRUE, idxs |-> <<MISSING_IDX, MISSING_IDX>>]
            ELSE IF loc < -Len(data) \/ loc >= Len(data) THEN [ok |-> FALSE, idxs |-> <<>>]
            ELSE LET row == data[(IF loc < 0 THEN loc + Len(data) ELSE loc) + 1]
                 IN  Genotype(alleles, row[1], row[2])
    IN  IF allow_fill /\ \E i \in 1..Len(indexer) : indexer[i] < -1
        THEN [ok |-> FALSE, data |-> <<>>]
        ELSE IF \E i \in 1..Len(indexer) : ~item(indexer[i]).ok
        THEN [ok |-> FALSE, data |-> <<>>]
        ELSE [ok |-> TRUE, data |-> [i \in 1..Len(indexer) |-> item(indexer[i]).idxs]]

\* a comparison of the dtypes that leaves out the allele lists
dtype_eq_same_position(v, w) ==
    v.chromosome = w.chromosome /\ v.position = w.position /\ v.id = w.id

\* GenotypeDtype.__eq__: the Variants are equal in every field
dtype_eq(v, w) ==
    /\ v.chromosome = w.chromosome /\ v.position = w.position
    /\ v.id = w.id /\ v.alleles = w.alleles

\* GenotypeArray._concat_same_type(to_concat)
concat_same_type(heap, to_concat) ==
    IF Len(to_concat) = 0
       \/ \E i, j \in 1..Len(to_concat) :
             ~dtype_eq(heap[to_concat[i].variant], heap[to_concat[j].variant])
    THEN [ok |-> FALSE, variant |-> 0, data |-> <<>>]
    ELSE LET RECURSIVE cat(_)
             cat(n) == IF n = 0 THEN <<>> ELSE cat(n - 1) \o to_concat[n].data
         IN  [ok |-> TRUE, variant |-> to_concat[1].variant, data |-> cat(Len(to_concat))]

-----------------------------------------------------------------------------
(* The GenotypeArray operations as a state machine *)

\* palettes of the Variant objects
PaletteInputs == { <<"A", "C">>, <<"A", "C", "G">> }

VariantIds == { "rs1", "rs2" }

NewVariant(id, alleles) ==
    [id |-> id, chromosome |-> "1", position |-> 100, alleles |-> alleles]

\* an array object: its Variant, its own records, its length when built, and
\* the array it was taken or copied from (0 when built from scalars)
NewArray(vid, data) ==
    [variant |-> vid, data |-> data, built_len |-> Len(data), origin |-> 0]

\* allele arguments of set_reference: strings (one of them in no palette) and
\* integers (negative, valid, past the end, the missing sentinel)
TargetInputs ==
    { StrTarget(a) : a \in {"A", "C", "G", "T"} }
        \cup { IntTarget(i) : i \in {-1, 0, 1, 2, MISSING_IDX} }

MaxOps == 3

\* the record of a call: which operation, on which array, whether it returned
\* normally, and how many calls were made so far
Called(op, a, ok) == [NoCall EXCEPT !.op = op, !.array = a, !.ok = ok, !.n = last.n + 1]

\* the Genotype arguments of a run: for every Variant a heterozygous, a
\* missing and a homozygous Genotype of its last allele
GenotypeInputs ==
    UNION { { g \in GenotypesOf(variants, vid) :
                g.idxs \in { <<0, Len(variants[vid].alleles) - 1>>,
                             <<MISSING_IDX, MISSING_IDX>>,
                             <<Len(variants[vid].alleles) - 1, Len(variants[vid].alleles) - 1>> } } :
            vid \in 1..Len(variants) }

InitArrays ==
    /\ pc = "arrays"
    /\ \E id2 \in VariantIds, p2 \in PaletteInputs :
          variants = << NewVariant("rs1", <<"A", "C">>), NewVariant(id2, p2) >>
    /\ arrays = <<>>
    /\ last = NoCall
    /\ IdlePlink /\ IdleVariant

\* GenotypeArray._from_sequence(scalars, dtype)
FromSequence(scalars, dtype) ==
    /\ pc = "arrays"
    /\ Len(arrays) < MaxArrays
    /\ LET r == from_sequence(variants, scalars, dtype)
       IN  /\ arrays' = IF r.ok THEN Append(arrays, NewArray(r.variant, r.data)) ELSE arrays
           /\ last' = Called("from_sequence", Len(arrays) + 1, r.ok)
    /\ UNCHANGED <<pc, variants, plinkVars, variantVars>>

\* a[key] = value with a Genotype value
SetItemGenotype(a, key, value) ==
    /\ pc = "arrays"
    /\ a \in 1..Len(arrays)
    /\ LET r == setitem_genotype(arrays[a].data, key, value)
       IN  /\ arrays' = [arrays EXCEPT ![a].data = r.data]
           /\ last' = Called("setitem", a, r.ok)
    /\ UNCHANGED <<pc, variants, plinkVars, variantVars>>

\* a[mask] = b with a GenotypeArray value
SetItemArray(a, mask, b) ==
    /\ pc = "arrays"
    /\ a \in 1..Len(arrays) /\ b \in 1..Len(arrays)
    /\ LET r == setitem_array(arrays[a].data, mask, arrays[b].data)
       IN  /\ arrays' = [arrays EXCEPT ![a].data = r.data]
           /\ last' = Called("setitem_array", a, r.ok)
    /\ UNCHANGED <<pc, variants, plinkVars, variantVars>>

\* a.take(indexer, allow_fill)
Take(a, indexer, allow_fill) ==
    /\ pc = "arrays"
    /\ a \in 1..Len(arrays)
    /\ Len(arrays) < MaxArrays
    /\ LET r == take(variants[arrays[a].variant].alleles, arrays[a].data, indexer, allow_fill)
       IN  /\ arrays' = IF r.ok
                        THEN Append(arrays, [NewArray(arrays[a].variant, r.data)
                                               EXCEPT !.origin = a])
                        ELSE arrays
           /\ last' = Called("take", a, r.ok)
    /\ UNCHANGED <<pc, variants, plinkVars, variantVars>>

\* a.copy()
Copy(a) ==
    /\ pc = "arrays"
    /\ a \in 1..Len(arrays)
    /\ Len(arrays) < MaxArrays
    /\ arrays' = Append(arrays, [NewArray(arrays[a].variant, arrays[a].data)
                                   EXCEPT !.origin = a])
    /\ last' = Called("copy", a, TRUE)
    /\ UNCHANGED <<pc, variants, plinkVars, variantVars>>

\* GenotypeArray._concat_same_type([a, b])
Concat(a, b) ==
    /\ pc = "arrays"
    /\ a \in 1..Len(arrays) /\ b \in 1..Len(arrays)
    /\ LET r == concat_same_type(variants, <<arrays[a], arrays[b]>>)
       IN  /\ arrays' = IF r.ok THEN Append(arrays, NewArray(r.variant, r.data)) ELSE arrays
           /\ last' = [Called("concat", a, r.ok) EXCEPT !.other = b]
    /\ UNCHANGED <<pc, variants, plinkVars, variantVars>>

\* a.set_reference(allele): the palette of the shared Variant and the records
\* of this array change
SetReference(a, allele) ==
    /\ pc = "arrays"
    /\ a \in 1..Len(arrays)
    /\ LET vid == arrays[a].variant
           r == set_reference(variants[vid].alleles, arrays[a].data, allele)
       IN  /\ variants' = [variants EXCEPT ![vid].alleles = r.alleles]
           /\ arrays' = [arrays EXCEPT ![a].data = r.data]
           /\ last' = [Called("set_reference", a, r.ok) EXCEPT
                         !.target = allele,
                         !.pre_alleles = variants[vid].alleles,
                         !.pre_data = arrays[a].data,
                         !.prev_target = IF last.op = "set_reference" /\ last.array = a
                                         THEN last.target ELSE NoTarget]
    /\ UNCHANGED <<pc, plinkVars, variantVars>>

\* at most MaxOps calls are made in a run
OpsLeft == last.n < MaxOps

NextArrays ==
    \/ \E n \in 1..MaxLen, dtype \in 0..2 :
          \E scalars \in SeqsOf(GenotypeInputs, n) : OpsLeft /\ FromSequence(scalars, dtype)
    \/ \E a \in 1..MaxArrays, key \in 0..(MaxLen - 1) :
          \E value \in GenotypeInputs : OpsLeft /\ SetItemGenotype(a, key, value)
    \/ \E a \in 1..MaxArrays, b \in 1..MaxArrays, n \in 1..MaxLen :
          \E mask \in SeqsOf(BOOLEAN, n) : OpsLeft /\ SetItemArray(a, mask, b)
    \/ \E a \in 1..MaxArrays, n \in 0..MaxLen, allow_fill \in BOOLEAN :
          \E indexer \in SeqsOf(-1..(MaxLen - 1), n) : OpsLeft /\ Take(a, indexer, allow_fill)
    \/ \E a \in 1..MaxArrays : OpsLeft /\ Copy(a)
    \/ \E a \in 1..MaxArrays, b \in 1..MaxArrays :
          OpsLeft /\ Len(arrays) < MaxArrays /\ Concat(a, b)
    \/ \E a \in 1..MaxArrays, allele \in TargetInputs : OpsLeft /\ SetReference(a, allele)

SpecArrays == InitArrays /\ [][NextArrays]_vars

-----------------------------------------------------------------------------
(* set_reference on one column: the array is built from Genotypes of its   *)
(* Variant, then set_reference is called on it again and again.            *)

\* palettes of two and three alleles, and one built from an alt list that
\* names an allele twice
SetRefPalettes == { <<"A", "C">>, <<"A", "C", "G">>, <<"A", "C", "C">> }

InitSetRef ==
    /\ pc = "arrays"
    /\ \E p \in SetRefPalettes : variants = << NewVariant("rs1", p) >>
    /\ \E n \in 1..MaxLen :
       \E scalars \in SeqsOf(GenotypesOf(variants, 1), n) :
          arrays = << NewArray(1, from_sequence(variants, scalars, 0).data) >>
    /\ last = NoCall
    /\ IdlePlink /\ IdleVariant

MaxSetRefCalls == 2

\* at most MaxSetRefCalls calls are made in a run
NextSetRef ==
    \E allele \in TargetInputs : last.n < MaxSetRefCalls /\ SetReference(1, allele)

SpecSetRef == InitSetRef /\ [][NextSetRef]_vars

-----------------------------------------------------------------------------
(* _concat_same_type on two columns: each is built from Genotypes of one   *)
(* of two Variant objects, which may be equal or differ in id or alleles.  *)

MaxConcats == 1

\* the rows of the columns: a heterozygous and a missing Genotype
ConcatRows(vid) ==
    { g \in GenotypesOf(variants, vid) : g.idxs \in { <<0, 1>>, <<MISSING_IDX, MISSING_IDX>> } }

InitConcat ==
    /\ pc = "arrays"
    /\ \E id2 \in VariantIds, p2 \in PaletteInputs :
          variants = << NewVariant("rs1", <<"A", "C">>), NewVariant(id2, p2) >>
    /\ \E v1 \in 1..2, v2 \in 1..2, n1 \in 1..MaxLen, n2 \in 1..MaxLen :
       \E s1 \in SeqsOf(ConcatRows(v1), n1), s2 \in SeqsOf(ConcatRows(v2), n2) :
          arrays = << NewArray(v1, from_sequence(variants, s1, 0).data),
                      NewArray(v2, from_sequence(variants, s2, 0).data) >>
    /\ last = NoCall
    /\ IdlePlink /\ IdleVariant

NextConcat ==
    \E a \in 1..(MaxArrays + MaxConcats), b \in 1..(MaxArrays + MaxConcats) :
        last.n < MaxConcats /\ Concat(a, b)

SpecConcat == InitConcat /\ [][NextConcat]_vars

-----------------------------------------------------------------------------
(* factorize and unique: the grouping of the rows of one column.           *)

\* numpy's order of two records: field by field
record_less(r, s) == r[1] < s[1] \/ (r[1] = s[1] /\ r[2] < s[2])

\* np.unique(data): the distinct records in sorted order
np_unique(data) ==
    LET RECURSIVE sorted(_)
        sorted(T) ==
            IF T = {} THEN <<>>
            ELSE LET m == CHOOSE x \in T : \A y \in T : y = x \/ record_less(x, y)
                 IN  <<m>> \o sorted(T \ {m})
    IN  sorted({ data[k] : k \in 1..Len(data) })

\* data[np.sort(idx)] for the first indices idx of np.unique: the distinct
\* records in the order of their first occurrence
first_seen(data) ==
    LET RECURSIVE upto(_)
        upto(n) ==
            IF n = 0 THEN <<>>
            ELSE IF \E j \in 1..(n - 1) : data[j] = data[n] THEN upto(n - 1)
            ELSE Append(upto(n - 1), data[n])
    IN  upto(Len(data))

\* GenotypeArray.isna for one record: both indices are the missing value
isna(rec) == rec[1] = MISSING_IDX /\ rec[2] = MISSING_IDX

\* GenotypeArray.__getitem__ for an integer: the record becomes a Genotype
getitem(alleles, rec) == Genotype(alleles, rec[1], rec[2])

\* GenotypeArray.factorize(na_sentinel): the codes start as ones, every
\* Genotype of the uniques other than the missing one writes its position
\* into the rows whose record equals it, then the missing rows get the
\* sentinel
factorize(alleles, data, na_sentinel) ==
    IF Len(data) = 0 THEN [ok |-> TRUE, codes |-> <<>>, uniques |-> data]
    ELSE LET uniques == first_seen(data)
             items == [k \in 1..Len(uniques) |-> getitem(alleles, uniques[k])]
             gts == SelectSeq([k \in 1..Len(items) |-> items[k].idxs],
                              LAMBDA g : g # <<MISSING_IDX, MISSING_IDX>>)
             written(rec) == { i \in 1..Len(gts) : gts[i] = rec }
             code(rec) ==
                 IF isna(rec) THEN na_sentinel
                 ELSE IF written(rec) = {} THEN 1
                 ELSE (CHOOSE i \in written(rec) : \A j \in written(rec) : j <= i) - 1
         IN  IF \E k \in 1..Len(items) : ~items[k].ok
             THEN [ok |-> FALSE, codes |-> <<>>, uniques |-> <<>>]
             ELSE [ok |-> TRUE,
                   codes |-> [k \in 1..Len(data) |-> code(data[k])],
                   uniques |-> SelectSeq(uniques, LAMBDA rec : ~isna(rec))]

\* GenotypeArray.unique()
unique(data) == np_unique(data)

MaxRows == 3
MaxGroupOps == 2

\* the rows of the column: A/A, A/C, C/C and the missing Genotype
GroupRows ==
    { g \in GenotypesOf(variants, 1) :
        g.idxs \in { <<0, 0>>, <<0, 1>>, <<1, 1>>, <<MISSING_IDX, MISSING_IDX>> } }

SentinelInputs == { -1, 7 }

InitGroup ==
    /\ pc = "arrays"
    /\ variants = << NewVariant("rs1", <<"A", "C", "G">>) >>
    /\ \E n \in 0..MaxRows : \E scalars \in SeqsOf(GroupRows, n) :
          arrays = << NewArray(1, from_sequence(variants, scalars, 1).data) >>
    /\ last = NoCall
    /\ IdlePlink /\ IdleVariant

\* a.factorize(na_sentinel)
Factorize(a, na_sentinel) ==
    /\ pc = "arrays"
    /\ a \in 1..Len(arrays)
    /\ LET r == factorize(variants[arrays[a].variant].alleles, arrays[a].data, na_sentinel)
       IN  last' = [Called("factorize", a, r.ok) EXCEPT
                      !.na_sentinel = na_sentinel, !.codes = r.codes, !.uniques = r.uniques]
    /\ UNCHANGED <<pc, variants, arrays, plinkVars, variantVars>>

\* a.unique()
Unique(a) ==
    /\ pc = "arrays"
    /\ a \in 1..Len(arrays)
    /\ last' = [Called("unique", a, TRUE) EXCEPT !.uniques = unique(arrays[a].data)]
    /\ UNCHANGED <<pc, variants, arrays, plinkVars, variantVars>>

GroupOpsLeft == last.n < MaxGroupOps

NextGroup ==
    \/ \E na_sentinel \in SentinelInputs : GroupOpsLeft /\ Factorize(1, na_sentinel)
    \/ GroupOpsLeft /\ Unique(1)
    \/ \E allele \in TargetInputs : GroupOpsLeft /\ SetReference(1, allele)

SpecGroup == InitGroup /\ [][NextGroup]_vars

-----------------------------------------------------------------------------
(* The encodings (encoding_mixin.py) of a column whose rows are lists of   *)
(* ploidy allele indices.                                                  *)

\* an entry of an encoded column: pd.NA (or None) is the empty list, a value
\* is the list of that value
NA == <<>>
Value(v) == <<v>>

\* allele_idxs.sum(axis=1) for one row
row_sum(row) ==
    LET RECURSIVE upto(_)
        upto(n) == IF n = 0 THEN 0 ELSE upto(n - 1) + row[n]
    IN  upto(Len(row))

\* a row counts as missing only when every allele is missing
every_allele_missing(row) == \A i \in 1..Len(row) : row[i] = MISSING_IDX

\* (allele_idxs == MISSING_IDX).any(axis=1) for one row
any_allele_missing(row) == \E i \in 1..Len(row) : row[i] = MISSING_IDX

\* (allele_idxs == 1).any(axis=1) and .all(axis=1) for one row
any_allele_minor(row) == \E i \in 1..Len(row) : row[i] = 1
all_alleles_minor(row) == \A i \in 1..Len(row) : row[i] = 1

EncodingError == [ok |-> FALSE, values |-> <<>>]

\* EncodingMixin.encode_additive
encode_additive(variant, allele_idxs) ==
    IF Len(variant.alleles) > 2 THEN EncodingError
    ELSE [ok |-> TRUE,
          values |-> [k \in 1..Len(allele_idxs) |->
                        IF any_allele_missing(allele_idxs[k]) THEN NA
                        ELSE Value(row_sum(allele_idxs[k]))]]

\* a dominant encoding that accepts any number of alternate alleles
encode_dominant_unchecked(variant, allele_idxs) ==
    [ok |-> TRUE,
     values |-> [k \in 1..Len(allele_idxs) |->
                   IF any_allele_missing(allele_idxs[k]) THEN NA
                   ELSE IF any_allele_minor(allele_idxs[k]) THEN Value(1) ELSE Value(0)]]

\* EncodingMixin.encode_dominant
encode_dominant(variant, allele_idxs) ==
    IF Len(variant.alleles) > 2 THEN EncodingError
    ELSE [ok |-> TRUE,
          values |-> [k \in 1..Len(allele_idxs) |->
                        IF any_allele_missing(allele_idxs[k]) THEN NA
                        ELSE IF any_allele_minor(allele_idxs[k]) THEN Value(1) ELSE Value(0)]]

\* EncodingMixin.encode_recessive
encode_recessive(variant, allele_idxs) ==
    IF Len(variant.alleles) > 2 THEN EncodingError
    ELSE [ok |-> TRUE,
          values |-> [k \in 1..Len(allele_idxs) |->
                        IF any_allele_missing(allele_idxs[k]) THEN NA
                        ELSE IF all_alleles_minor(allele_idxs[k]) THEN Value(1) ELSE Value(0)]]

categories == <<"Ref", "Het", "Hom">>

\* EncodingMixin.encode_codominant: the category of the row's sum, None for
\* any other sum
encode_codominant(variant, allele_idxs) ==
    IF Len(variant.alleles) > 2 THEN EncodingError
    ELSE IF variant.ploidy # 2 THEN EncodingError
    ELSE [ok |-> TRUE,
          values |-> [k \in 1..Len(allele_idxs) |->
                        IF row_sum(allele_idxs[k]) \in {0, 1, 2}
                        THEN Value(categories[row_sum(allele_idxs[k]) + 1])
                        ELSE NA]]

-----------------------------------------------------------------------------
(* Variant (scalars.py): the allele palette and the methods that change it. *)
(* In this part a string is the sequence of its characters, so that it can  *)
(* be split and joined.                                                     *)

\* the string ".", which get_allele_from_idx returns for MISSING_IDX
NoAllele == <<".">>

\* None in the place of an allele: not a string, so its one entry is not a
\* character
NoneAllele == <<"None">>

\* the ploidy of a Variant built without a ploidy argument
DefaultPloidy == 2

\* Variant.__init__: the checks made on ref and alt, then alleles = [ref] + alt
Variant_init(ref, alt) ==
    IF \E i \in 1..Len(alt) : alt[i] = ref THEN [ok |-> FALSE, alleles |-> <<>>]
    ELSE IF Len(alt) >= MISSING_IDX THEN [ok |-> FALSE, alleles |-> <<>>]
    ELSE [ok |-> TRUE, alleles |-> <<ref>> \o alt]

\* an addition at the front of the palette
add_allele_front(alleles, allele) ==
    IF \E i \in 1..Len(alleles) : alleles[i] = allele
    THEN [ok |-> FALSE, alleles |-> alleles]
    ELSE [ok |-> TRUE, alleles |-> <<allele>> \o alleles]

\* Variant.add_allele: after the append, print(... {self.alt}) joins
\* alleles[1:] and raises TypeError when one of them is None
add_allele(alleles, allele) ==
    IF \E i \in 1..Len(alleles) : alleles[i] = allele
    THEN [ok |-> FALSE, alleles |-> alleles]
    ELSE IF Len(alleles) < MISSING_IDX
         THEN [ok |-> \A i \in 2..(Len(alleles) + 1) : Append(alleles, allele)[i] # NoneAllele,
               alleles |-> Append(alleles, allele)]
         ELSE [ok |-> FALSE, alleles |-> alleles]

\* Variant.get_idx_from_allele(allele, add)
get_idx_from_allele(alleles, allele, add) ==
    IF allele = NoneAllele \/ allele = NoAllele
    THEN [ok |-> TRUE, idx |-> MISSING_IDX, alleles |-> alleles]
    ELSE IF \E i \in 1..Len(alleles) : alleles[i] = allele
         THEN [ok |-> TRUE, idx |-> list_index(alleles, allele), alleles |-> alleles]
         ELSE IF add
              THEN LET added == add_allele(alleles, allele)
                   IN  [ok |-> added.ok,
                        idx |-> IF added.ok THEN Len(added.alleles) - 1 ELSE MISSING_IDX,
                        alleles |-> added.alleles]
              ELSE [ok |-> FALSE, idx |-> MISSING_IDX, alleles |-> alleles]

\* Variant.get_allele_from_idx(idx); NoAllele stands for the returned ".".  A
\* negative idx passes both tests and reaches self.alleles[idx], which counts
\* from the end of the list and raises IndexError below -len(alleles)
get_allele_from_idx(alleles, idx) ==
    IF idx = MISSING_IDX THEN [ok |-> TRUE, allele |-> NoAllele]
    ELSE IF idx > Len(alleles) - 1 THEN [ok |-> FALSE, allele |-> NoAllele]
    ELSE IF idx >= 0 THEN [ok |-> TRUE, allele |-> alleles[idx + 1]]
    ELSE IF -idx <= Len(alleles) THEN [ok |-> TRUE, allele |-> alleles[Len(alleles) + idx + 1]]
    ELSE [ok |-> FALSE, allele |-> NoAllele]

\* [self.get_idx_from_allele(a, add=add_alleles) for a in alleles]: the
\* lookups run in order, each on the palette the ones before it left, and the
\* first failure ends the loop
RECURSIVE idxs_from_alleles(_, _, _)
idxs_from_alleles(alleles, args, add) ==
    IF args = <<>> THEN [ok |-> TRUE, idxs |-> <<>>, alleles |-> alleles]
    ELSE LET first == get_idx_from_allele(alleles, Head(args), add)
         IN  IF ~first.ok THEN [ok |-> FALSE, idxs |-> <<>>, alleles |-> first.alleles]
             ELSE LET rest == idxs_from_alleles(first.alleles, Tail(args), add)
                  IN  [ok |-> rest.ok,
                       idxs |-> IF rest.ok THEN <<first.idx>> \o rest.idxs ELSE <<>>,
                       alleles |-> rest.alleles]

\* sorted(allele_idxs) with the indices left in the order given
sorted_idxs_none(idxs) == idxs

\* sorted(allele_idxs): ascending, repeated values kept
RECURSIVE sorted_idxs(_)
sorted_idxs(idxs) ==
    IF idxs = <<>> THEN <<>>
    ELSE LET least == CHOOSE i \in 1..Len(idxs) : \A j \in 1..Len(idxs) : idxs[i] <= idxs[j]
         IN  <<idxs[least]>> \o
                 sorted_idxs(SubSeq(idxs, 1, least - 1) \o SubSeq(idxs, least + 1, Len(idxs)))

\* Genotype.__init__(variant, allele_idxs): length check, padding with
\* MISSING_IDX, sorting, validation
Genotype_init(alleles, ploidy, allele_idxs) ==
    IF Len(allele_idxs) > ploidy THEN [ok |-> FALSE, idxs |-> <<>>]
    ELSE LET filled == allele_idxs \o
                          [i \in 1..(ploidy - Len(allele_idxs)) |-> MISSING_IDX]
             sorted == sorted_idxs(filled)
         IN  IF \A i \in 1..Len(sorted) : is_valid_allele_idx(alleles, sorted[i])
             THEN [ok |-> TRUE, idxs |-> sorted]
             ELSE [ok |-> FALSE, idxs |-> <<>>]

\* missing_idxs = [MISSING_IDX] * (self.ploidy - len(self.alleles)): the
\* length of the palette is subtracted, not the number of alleles given
missing_idxs(alleles, ploidy, args) ==
    [i \in 1..(ploidy - Len(alleles)) |-> MISSING_IDX]

\* Variant.make_genotype(*alleles, add_alleles): alleles added before a
\* failure stay in the palette
make_genotype(alleles, ploidy, args, add_alleles) ==
    IF Len(args) > ploidy THEN [ok |-> FALSE, idxs |-> <<>>, alleles |-> alleles]
    ELSE LET looked == idxs_from_alleles(alleles, args, add_alleles)
         IN  IF ~looked.ok THEN [ok |-> FALSE, idxs |-> <<>>, alleles |-> looked.alleles]
             ELSE LET gt == Genotype_init(looked.alleles, ploidy,
                                looked.idxs \o missing_idxs(looked.alleles, ploidy, args))
                  IN  [ok |-> gt.ok, idxs |-> gt.idxs, alleles |-> looked.alleles]

\* str.split(sep): the pieces between the separators; a string without a
\* separator, the empty one included, is one piece
RECURSIVE split(_, _)
split(str, sep) ==
    IF \A i \in 1..Len(str) : str[i] # sep THEN <<str>>
    ELSE LET at == CHOOSE i \in 1..Len(str) :
                      str[i] = sep /\ \A j \in 1..(i - 1) : str[j] # sep
         IN  <<SubSeq(str, 1, at - 1)>> \o split(SubSeq(str, at + 1, Len(str)), sep)

\* sep.join(strs)
RECURSIVE join(_, _)
join(sep, strs) ==
    IF strs = <<>> THEN <<>>
    ELSE IF Len(strs) = 1 THEN strs[1]
    ELSE strs[1] \o <<sep>> \o join(sep, Tail(strs))

\* the default separator of make_genotype_from_str and of Genotype.__str__
Sep == "/"

\* Variant.make_genotype_from_str(gt_str, sep, add_alleles): after the split
\* the statements are those of make_genotype
make_genotype_from_str(alleles, ploidy, gt_str, add_alleles) ==
    make_genotype(alleles, ploidy, split(gt_str, Sep), add_alleles)

MissingStr == <<"<", "M", "i", "s", "s", "i", "n", "g", ">">>

\* Genotype.__str__; every index of a Genotype is valid for its Variant
Genotype_str(alleles, idxs) ==
    IF \A i \in 1..Len(idxs) : idxs[i] = MISSING_IDX THEN MissingStr
    ELSE join(Sep, [i \in 1..Len(idxs) |-> get_allele_from_idx(alleles, idxs[i]).allele])

\* Variant.__eq__ on the fields that differ between the Variants of a run
Variant_eq(v, w) == v.id = w.id /\ v.alleles = w.alleles /\ v.ploidy = w.ploidy

\* Genotype.__eq__: raises for unequal Variants, else compares the tuples
Genotype_eq(g, h) ==
    IF ~Variant_eq(g.variant, h.variant) THEN [ok |-> FALSE, result |-> FALSE]
    ELSE [ok |-> TRUE, result |-> g.idxs = h.idxs]

\* the first position where two tuples differ, 0 when there is none
first_difference(a, b) ==
    LET n == Min(Len(a), Len(b))
    IN  IF \A i \in 1..n : a[i] = b[i] THEN 0
        ELSE CHOOSE i \in 1..n : a[i] # b[i] /\ \A j \in 1..(i - 1) : a[j] = b[j]

\* Genotype.__lt__, __gt__, __le__, __ge__: the first differing pair of
\* indices decides; equal tuples give False for the strict and True for the
\* other two
Genotype_order(op, g, h) ==
    IF ~Variant_eq(g.variant, h.variant) THEN [ok |-> FALSE, result |-> FALSE]
    ELSE LET d == first_difference(g.idxs, h.idxs)
         IN  [ok |-> TRUE,
              result |-> IF d = 0 THEN op \in {"le", "ge"}
                         ELSE IF op \in {"lt", "le"} THEN g.idxs[d] < h.idxs[d]
                         ELSE g.idxs[d] > h.idxs[d]]

Digits == <<"0", "1", "2", "3", "4", "5", "6", "7", "8", "9">>

is_digit(c) == \E d \in 0..9 : Digits[d + 1] = c

\* str(n) of an integer n >= 0
RECURSIVE int_str(_)
int_str(n) ==
    IF n < 10 THEN <<Digits[n + 1]>>
    ELSE int_str(n \div 10) \o <<Digits[(n % 10) + 1]>>

\* Variant.__str__ for a Variant made without chromosome, position and
\* score: id[chr=None;pos=0;ref=<ref>;alt=<alt>], the alternate alleles
\* joined by ","
Variant_str(v) ==
    v.id \o <<"[", "c", "h", "r", "=", "N", "o", "n", "e", ";", "p", "o", "s", "=", "0", ";", "r", "e", "f", "=">>
         \o v.alleles[1] \o <<";", "a", "l", "t", "=">>
         \o join(",", Tail(v.alleles)) \o <<"]">>

\* Genotype.__repr__: Genotype(variant=<str(variant)>)[<str(self)>] and then
\* Q<score>, which is left out when the score is None (MISSING_IDX here)
Genotype_repr(g) ==
    <<"G", "e", "n", "o", "t", "y", "p", "e", "(", "v", "a", "r", "i", "a", "n", "t", "=">>
        \o Variant_str(g.variant) \o <<")", "[">>
        \o Genotype_str(g.variant.alleles, g.idxs) \o <<"]">>
        \o (IF g.score = MISSING_IDX THEN <<>> ELSE <<"Q">> \o int_str(g.score))

\* Genotype.__hash__ is hash(repr(self)): equal for equal repr strings; two
\* different repr strings have different hashes
Genotype_hash(g) == Genotype_repr(g)

\* the score kept by Genotype.__init__: 255 is stored as None, for which
\* MISSING_IDX stands here; a score outside 0..255 is an error
Genotype_score(score) ==
    IF score < 0 \/ score > 255 THEN [ok |-> FALSE, score |-> MISSING_IDX]
    ELSE [ok |-> TRUE, score |-> score]

MaxVariantOps == 2

\* ref arguments
RefInputs == { <<"A">>, <<"C">> }

Bases == <<"A", "C", "G", "T">>

\* the i-th of the four-letter alleles: the digits of i in base 4
LongAllele(i) ==
    << Bases[((i \div 64) % 4) + 1], Bases[((i \div 16) % 4) + 1],
       Bases[((i \div 4) % 4) + 1], Bases[(i % 4) + 1] >>

\* alt arguments: every list of at most two of three alleles (the ref and a
\* repeated allele included), and lists of distinct alleles of the lengths
\* around the largest one accepted
AltInputs ==
    UNION { SeqsOf({ <<"A">>, <<"C">>, <<"G">> }, n) : n \in 0..2 }
        \cup { [i \in 1..n |-> LongAllele(i)] : n \in (MISSING_IDX - 3)..MISSING_IDX }

\* allele arguments of get_idx_from_allele: None, ".", known ones, unknown
\* ones
AlleleInputs == { NoneAllele, NoAllele, <<"A">>, <<"C">>, <<"G">>, <<"T">>, <<"A", "T">> }

\* allele arguments of add_allele (allele: str)
StrAlleleInputs == AlleleInputs \ { NoneAllele }

\* allele arguments of make_genotype: None, ".", known ones, an unknown one
MakeGenotypeInputs == { NoneAllele, NoAllele, <<"A">>, <<"C">>, <<"T">> }

\* index arguments: negative ones, small ones, and the ones around MISSING_IDX
IdxInputs == (-3..3) \cup {MISSING_IDX - 1, MISSING_IDX, MISSING_IDX + 1}

NewArgs(ref, alt) ==
    [op |-> "args", ok |-> TRUE, n |-> 0, pre |-> <<>>, idx |-> MISSING_IDX,
     ref |-> ref, alt |-> alt, allele |-> NoAllele, add |-> FALSE]

VariantCalled(op, ok, idx, allele, add) ==
    [palette_log EXCEPT !.op = op, !.ok = ok, !.n = palette_log.n + 1, !.pre = palette,
                        !.idx = idx, !.allele = allele, !.add = add]

InitVariant ==
    /\ pc = "variant_args"
    /\ palette = <<>>
    /\ \E ref \in RefInputs, alt \in AltInputs : palette_log = NewArgs(ref, alt)
    /\ IdlePlink /\ IdleArrays

\* Variant(ref=ref, alt=alt)
VariantInit ==
    /\ pc = "variant_args"
    /\ LET r == Variant_init(palette_log.ref, palette_log.alt)
       IN  /\ pc' = IF r.ok THEN "variant" ELSE "variant_rejected"
           /\ palette' = r.alleles
           /\ palette_log' = [palette_log EXCEPT !.op = "init", !.ok = r.ok]
    /\ UNCHANGED <<plink_bits, gt_rows, input_rows, bed_file, variant_list, num_samples, loaded>>
    /\ UNCHANGED arrayVars

\* variant.add_allele(allele)
AddAllele(allele) ==
    /\ pc = "variant"
    /\ LET r == add_allele(palette, allele)
       IN  /\ palette' = r.alleles
           /\ palette_log' = VariantCalled("add_allele", r.ok, MISSING_IDX, allele, TRUE)
    /\ UNCHANGED <<pc, plink_bits, gt_rows, input_rows, bed_file, variant_list, num_samples, loaded>>
    /\ UNCHANGED arrayVars

\* variant.get_idx_from_allele(allele, add)
GetIdxFromAllele(allele, add) ==
    /\ pc = "variant"
    /\ LET r == get_idx_from_allele(palette, allele, add)
       IN  /\ palette' = r.alleles
           /\ palette_log' = VariantCalled("get_idx_from_allele", r.ok, r.idx, allele, add)
    /\ UNCHANGED <<pc, plink_bits, gt_rows, input_rows, bed_file, variant_list, num_samples, loaded>>
    /\ UNCHANGED arrayVars

\* variant.make_genotype(*args, add_alleles=add_alleles)
MakeGenotype(args, add_alleles) ==
    /\ pc = "variant"
    /\ LET r == make_genotype(palette, DefaultPloidy, args, add_alleles)
       IN  /\ palette' = r.alleles
           /\ palette_log' = VariantCalled("make_genotype", r.ok, MISSING_IDX, NoAllele,
                                           add_alleles)
    /\ UNCHANGED <<pc, plink_bits, gt_rows, input_rows, bed_file, variant_list, num_samples, loaded>>
    /\ UNCHANGED arrayVars

\* variant.get_allele_from_idx(idx)
GetAlleleFromIdx(idx) ==
    /\ pc = "variant"
    /\ LET r == get_allele_from_idx(palette, idx)
       IN  palette_log' = VariantCalled("get_allele_from_idx", r.ok, idx, r.allele, FALSE)
    /\ UNCHANGED <<pc, palette, plink_bits, gt_rows, input_rows, bed_file, variant_list,
                   num_samples, loaded>>
    /\ UNCHANGED arrayVars

\* set_reference(allele) on an array of this Variant: the palette part
SetReferenceVariant(allele) ==
    /\ pc = "variant"
    /\ LET r == set_reference(palette, <<>>, allele)
       IN  /\ palette' = r.alleles
           /\ palette_log' = VariantCalled("set_reference", r.ok, MISSING_IDX, NoAllele, FALSE)
    /\ UNCHANGED <<pc, plink_bits, gt_rows, input_rows, bed_file, variant_list, num_samples, loaded>>
    /\ UNCHANGED arrayVars

VariantOpsLeft == palette_log.n < MaxVariantOps

NextVariant ==
    \/ VariantInit
    \/ \E allele \in StrAlleleInputs : VariantOpsLeft /\ AddAllele(allele)
    \/ \E allele \in AlleleInputs, add \in BOOLEAN :
          VariantOpsLeft /\ GetIdxFromAllele(allele, add)
    \/ \E n \in 0..(DefaultPloidy + 1), add_alleles \in BOOLEAN :
          \E args \in SeqsOf(MakeGenotypeInputs, n) :
              VariantOpsLeft /\ MakeGenotype(args, add_alleles)
    \/ \E idx \in IdxInputs : VariantOpsLeft /\ GetAlleleFromIdx(idx)
    \/ \E allele \in { StrTarget(a) : a \in { <<"A">>, <<"C">>, <<"G">> } } \cup { IntTarget(i) : i \in 0..2 } :
          VariantOpsLeft /\ SetReferenceVariant(allele)

SpecVariant == InitVariant /\ [][NextVariant]_vars

-----------------------------------------------------------------------------
(* Genotype (scalars.py): construction from alleles, from a string and     *)
(* from indices, rendering, and comparison.  One Variant and the Genotype  *)
(* made last are kept.                                                     *)

MaxGenotypeOps == 3

\* the Genotypes made from arguments in a run (the one parsed back from a
\* rendered string is not counted)
MaxBuilds == 1

\* ploidies of the Variant
PloidyInputs == {1, 2, 3}

\* a call has just returned a Genotype
GenotypeMade ==
    /\ palette_log.has_gt
    /\ palette_log.op \in {"make_genotype", "make_genotype_from_str", "Genotype", "reparse"}

GenotypePalettes ==
    { << <<"A">> >>, << <<"A">>, <<"C">> >>, << <<"A">>, <<"C">>, <<"G">> >> }

\* genotype strings: one or two alleles (known, unknown, ".")
\* joined by the separator, the empty string, and a string ending in the
\* separator
StrInputs ==
    { join(Sep, toks) :
        toks \in UNION { SeqsOf({ <<"A">>, <<"C">>, <<"T">>, NoAllele }, n) : n \in 1..2 } }
      \cup { <<>>, <<"A", Sep>>, <<"A", Sep, "A", Sep, "C">>,
             <<"C", Sep, "A", Sep, "C", Sep, "A">> }

\* allele arguments of make_genotype
ArgInputs == { <<"A">>, <<"C">>, <<"T">> }

\* index arguments of Genotype: negative, valid or past the end of the
\* palette, missing
GenotypeIdxInputs == { -1, 0, 1, MISSING_IDX }

\* scores: None (MISSING_IDX) and a score
ScoreInputs == { MISSING_IDX, 30 }

NoGenotype ==
    [op |-> "none", ok |-> TRUE, n |-> 0, builds |-> 0, ploidy |-> DefaultPloidy, pre |-> <<>>,
     args |-> <<>>, gt_str |-> <<>>, add |-> FALSE, in_idxs |-> <<>>,
     has_gt |-> FALSE, idxs |-> <<>>, score |-> MISSING_IDX, from_str |-> FALSE,
     rendered |-> <<>>, built |-> <<>>,
     other |-> [variant |-> [id |-> <<"r", "s", "1">>, alleles |-> <<>>, ploidy |-> DefaultPloidy],
                idxs |-> <<>>, score |-> MISSING_IDX],
     cmp |-> "none", result |-> FALSE]

\* the record of a call that made (or failed to make) a Genotype
GenotypeCalled(op, ok, idxs, score) ==
    [NoGenotype EXCEPT !.op = op, !.ok = ok, !.n = palette_log.n + 1,
                       !.builds = palette_log.builds + (IF op = "reparse" THEN 0 ELSE 1),
                       !.ploidy = palette_log.ploidy, !.pre = palette,
                       !.has_gt = ok, !.idxs = idxs, !.score = score,
                       !.from_str = (op = "make_genotype_from_str")]

\* the Variant of the run and the Genotype held
ThisVariant == [id |-> <<"r", "s", "1">>, alleles |-> palette, ploidy |-> palette_log.ploidy]
ThisGenotype == [variant |-> ThisVariant, idxs |-> palette_log.idxs, score |-> palette_log.score]

\* the Genotypes this one is compared with: of an equal Variant, of one with
\* another id, of one with another allele list
OtherVariants ==
    { ThisVariant, [ThisVariant EXCEPT !.id = <<"r", "s", "2">>],
      [ThisVariant EXCEPT !.alleles = Append(palette, <<"T">>)] }

OtherGenotypes ==
    { [variant |-> v, idxs |-> Genotype_init(v.alleles, v.ploidy, idxs).idxs, score |-> sc] :
        v \in OtherVariants,
        idxs \in { palette_log.idxs,
                   [i \in 1..palette_log.ploidy |-> 0],
                   [i \in 1..palette_log.ploidy |-> MISSING_IDX] },
        sc \in { 30 } }

InitGenotype ==
    /\ pc = "genotype"
    /\ palette \in GenotypePalettes
    /\ \E p \in PloidyInputs : palette_log = [NoGenotype EXCEPT !.ploidy = p]
    /\ IdlePlink /\ IdleArrays

\* variant.make_genotype(*args, add_alleles=add_alleles)
GenotypeFromAlleles(args, add_alleles) ==
    /\ pc = "genotype"
    /\ LET r == make_genotype(palette, palette_log.ploidy, args, add_alleles)
       IN  /\ palette' = r.alleles
           /\ palette_log' = [GenotypeCalled("make_genotype", r.ok, r.idxs, MISSING_IDX)
                                EXCEPT !.args = args, !.add = add_alleles]
    /\ UNCHANGED <<pc, plinkVars, arrayVars>>

\* variant.make_genotype_from_str(gt_str, add_alleles=add_alleles)
GenotypeFromStr(gt_str, add_alleles) ==
    /\ pc = "genotype"
    /\ LET r == make_genotype_from_str(palette, palette_log.ploidy, gt_str, add_alleles)
       IN  /\ palette' = r.alleles
           /\ palette_log' = [GenotypeCalled("make_genotype_from_str", r.ok, r.idxs,
                                             MISSING_IDX)
                                EXCEPT !.gt_str = gt_str, !.add = add_alleles]
    /\ UNCHANGED <<pc, plinkVars, arrayVars>>

\* Genotype(variant, allele_idxs, score)
GenotypeFromIdxs(allele_idxs, score) ==
    /\ pc = "genotype"
    /\ LET r == Genotype_init(palette, palette_log.ploidy, allele_idxs)
           sc == Genotype_score(score)
       IN  palette_log' = [GenotypeCalled("Genotype", r.ok /\ sc.ok,
                                          IF r.ok /\ sc.ok THEN r.idxs ELSE <<>>, sc.score)
                             EXCEPT !.in_idxs = allele_idxs]
    /\ UNCHANGED <<pc, palette, plinkVars, arrayVars>>

\* str(genotype) for the Genotype held
GenotypeStr ==
    /\ pc = "genotype"
    /\ GenotypeMade
    /\ palette_log' = [palette_log EXCEPT !.op = "str", !.n = palette_log.n + 1,
                           !.pre = palette,
                           !.rendered = Genotype_str(palette, palette_log.idxs)]
    /\ UNCHANGED <<pc, palette, plinkVars, arrayVars>>

\* variant.make_genotype_from_str(s) for the string rendered last
GenotypeReparse ==
    /\ pc = "genotype"
    /\ palette_log.op = "str"
    /\ LET r == make_genotype_from_str(palette, palette_log.ploidy, palette_log.rendered, FALSE)
       IN  /\ palette' = r.alleles
           /\ palette_log' = [GenotypeCalled("reparse", r.ok, r.idxs, MISSING_IDX)
                                EXCEPT !.built = palette_log.idxs,
                                       !.gt_str = palette_log.rendered,
                                       !.from_str = palette_log.from_str]
    /\ UNCHANGED <<pc, plinkVars, arrayVars>>

\* genotype == other, genotype < other, ..., hash(genotype) == hash(other)
GenotypeCompare(cmp, other) ==
    /\ pc = "genotype"
    /\ GenotypeMade
    /\ LET r == IF cmp = "eq" THEN Genotype_eq(ThisGenotype, other)
                ELSE IF cmp = "hash"
                     THEN [ok |-> TRUE,
                           result |-> Genotype_hash(ThisGenotype) = Genotype_hash(other)]
                     ELSE Genotype_order(cmp, ThisGenotype, other)
       IN  palette_log' = [palette_log EXCEPT !.op = "compare", !.n = palette_log.n + 1,
                               !.pre = palette, !.ok = r.ok, !.cmp = cmp,
                               !.other = other, !.result = r.result]
    /\ UNCHANGED <<pc, palette, plinkVars, arrayVars>>

GenotypeOpsLeft == palette_log.n < MaxGenotypeOps

\* the Genotypes are made first, then the last one is rendered, parsed back
\* and compared
BuildsLeft ==
    /\ GenotypeOpsLeft /\ palette_log.builds < MaxBuilds
    /\ palette_log.op \in {"none", "make_genotype", "make_genotype_from_str", "Genotype"}

NextGenotype ==
    \/ \E n \in 0..(palette_log.ploidy + 1), add_alleles \in BOOLEAN :
          \E args \in SeqsOf(ArgInputs, n) :
              BuildsLeft /\ GenotypeFromAlleles(args, add_alleles)
    \/ \E gt_str \in StrInputs, add_alleles \in BOOLEAN :
          BuildsLeft /\ GenotypeFromStr(gt_str, add_alleles)
    \/ \E n \in 0..(palette_log.ploidy + 1), score \in ScoreInputs :
          \E allele_idxs \in SeqsOf(GenotypeIdxInputs, n) :
              BuildsLeft /\ GenotypeFromIdxs(allele_idxs, score)
    \/ GenotypeOpsLeft /\ GenotypeStr
    \/ GenotypeOpsLeft /\ GenotypeReparse
    \/ \E cmp \in {"eq", "hash", "lt", "le", "gt", "ge"} :
          \E other \in OtherGenotypes : GenotypeOpsLeft /\ GenotypeCompare(cmp, other)

SpecGenotype == InitGenotype /\ [][NextGenotype]_vars

-----------------------------------------------------------------------------
(* encode_weighted and the state machine of the encodings *)

\* the floats of a weighted column
Zero == "0.0"
One == "1.0"

\* (allele_idxs == idx).all(axis=1) for one row
all_alleles_equal(row, idx) == \A i \in 1..Len(row) : row[i] = idx

\* (allele_idxs == pair).all(axis=1) for one row: numpy stretches a row of one
\* index over the pair
row_equals_pair(row, pair) ==
    \A i \in 1..Len(pair) : row[IF Len(row) = 1 THEN 1 ELSE i] = pair[i]

\* the heterozygous test of encode_weighted: against sorted([ref, alt])
row_equals_sorted_pair(row, pair) == row_equals_pair(row, sorted_idxs(pair))

\* EncodingMixin.encode_weighted: the two alleles are resolved without adding
\* them; the column starts as NaN and takes 0.0, then 1.0, then alpha_value
\* under the three masks in that order.  Rows of more than two indices cannot
\* be compared with the pair.
encode_weighted(variant, allele_idxs, alpha_value, ref_allele, alt_allele) ==
    LET ref_allele_idx == get_idx_from_allele(variant.alleles, ref_allele, FALSE)
        alt_allele_idx == get_idx_from_allele(variant.alleles, alt_allele, FALSE)
        value(row) ==
            IF row_equals_sorted_pair(row, <<ref_allele_idx.idx, alt_allele_idx.idx>>)
            THEN Value(alpha_value)
            ELSE IF all_alleles_equal(row, alt_allele_idx.idx) THEN Value(One)
            ELSE IF all_alleles_equal(row, ref_allele_idx.idx) THEN Value(Zero)
            ELSE NA
    IN  IF ~ref_allele_idx.ok \/ ~alt_allele_idx.ok THEN EncodingError
        ELSE IF variant.ploidy > 2 THEN EncodingError
        ELSE [ok |-> TRUE, values |-> [k \in 1..Len(allele_idxs) |-> value(allele_idxs[k])]]

\* the alpha values and the allele arguments: the alleles of the palettes and
\* the missing allele "."
AlphaInputs == { "0.25", One }
WeightedAlleles == { <<"A">>, <<"T">>, <<"G">>, NoAllele }

MaxEncodeRows == 2

\* a Variant with a ploidy
EncodeVariant(alleles, ploidy) ==
    [id |-> "rs12345", chromosome |-> "chr1", position |-> 123456,
     alleles |-> alleles, ploidy |-> ploidy]

\* palettes with no, one and two alternate alleles
EncodePalettes ==
    { << <<"A">> >>, << <<"A">>, <<"T">> >>, << <<"A">>, <<"T">>, <<"G">> >> }

EncodePloidies == { 1, 2, 3 }

\* the rows a Variant allows: ploidy sorted indices, each valid or missing
EncodeRows(variant) ==
    { row \in SeqsOf((0..(Len(variant.alleles) - 1)) \cup {MISSING_IDX}, variant.ploidy) :
        \A i \in 1..(variant.ploidy - 1) : row[i] <= row[i + 1] }

\* homozygous reference, heterozygous, homozygous alternate, one allele
\* missing, both alleles missing
EncodingColumn ==
    << <<0, 0>>, <<0, 1>>, <<1, 1>>, <<0, MISSING_IDX>>, <<MISSING_IDX, MISSING_IDX>> >>

\* the columns of a Variant: short columns of any of its rows, and for a
\* diploid Variant with one alternate allele the five-row column
EncodeColumns(variant) ==
    UNION { SeqsOf(EncodeRows(variant), n) : n \in 0..MaxEncodeRows }
        \cup (IF Len(variant.alleles) = 2 /\ variant.ploidy = 2 THEN {EncodingColumn} ELSE {})

InitEncode ==
    /\ pc = "arrays"
    /\ \E alleles \in EncodePalettes, ploidy \in EncodePloidies :
          /\ variants = << EncodeVariant(alleles, ploidy) >>
          /\ \E data \in EncodeColumns(EncodeVariant(alleles, ploidy)) :
                arrays = << NewArray(1, data) >>
    /\ last = NoCall
    /\ IdlePlink /\ IdleVariant

\* the record of one encoding call on array a
EncodeCalled(op, a, r) ==
    [NoCall EXCEPT !.op = op, !.array = a, !.ok = r.ok, !.encoded = r.values]

\* a.encode_additive()
EncodeAdditive(a) ==
    /\ pc = "arrays"
    /\ a \in 1..Len(arrays)
    /\ last' = EncodeCalled("encode_additive", a,
                            encode_additive(variants[arrays[a].variant], arrays[a].data))
    /\ UNCHANGED <<pc, variants, arrays, plinkVars, variantVars>>

\* a.encode_dominant()
EncodeDominant(a) ==
    /\ pc = "arrays"
    /\ a \in 1..Len(arrays)
    /\ last' = EncodeCalled("encode_dominant", a,
                            encode_dominant(variants[arrays[a].variant], arrays[a].data))
    /\ UNCHANGED <<pc, variants, arrays, plinkVars, variantVars>>

\* a.encode_recessive()
EncodeRecessive(a) ==
    /\ pc = "arrays"
    /\ a \in 1..Len(arrays)
    /\ last' = EncodeCalled("encode_recessive", a,
                            encode_recessive(variants[arrays[a].variant], arrays[a].data))
    /\ UNCHANGED <<pc, variants, arrays, plinkVars, variantVars>>

\* a.encode_codominant()
EncodeCodominant(a) ==
    /\ pc = "arrays"
    /\ a \in 1..Len(arrays)
    /\ last' = EncodeCalled("encode_codominant", a,
                            encode_codominant(variants[arrays[a].variant], arrays[a].data))
    /\ UNCHANGED <<pc, variants, arrays, plinkVars, variantVars>>

\* a.encode_weighted(alpha_value, ref_allele, alt_allele, minor_allele_freq)
EncodeWeighted(a, alpha_value, ref_allele, alt_allele) ==
    /\ pc = "arrays"
    /\ a \in 1..Len(arrays)
    /\ last' = [EncodeCalled("encode_weighted", a,
                             encode_weighted(variants[arrays[a].variant], arrays[a].data,
                                             alpha_value, ref_allele, alt_allele))
                  EXCEPT !.alpha_value = alpha_value,
                         !.ref_allele = ref_allele, !.alt_allele = alt_allele]
    /\ UNCHANGED <<pc, variants, arrays, plinkVars, variantVars>>

NextEncode ==
    \/ \E alpha_value \in AlphaInputs, ref_allele \in WeightedAlleles,
          alt_allele \in WeightedAlleles :
          EncodeWeighted(1, alpha_value, ref_allele, alt_allele)
    \/ EncodeAdditive(1)
    \/ EncodeDominant(1)
    \/ EncodeRecessive(1)
    \/ EncodeCodominant(1)

SpecEncode == InitEncode /\ [][NextEncode]_vars

-----------------------------------------------------------------------------
(* The statistics of a column (info_mixin.py).  A float result is a record: *)
(* NaN, or the exact fraction num/den.                                      *)

NaN == [nan |-> TRUE, num |-> 0, den |-> 1]
Fraction(num, den) == [nan |-> FALSE, num |-> num, den |-> den]

\* allele_idxs.flatten(): the indices of all rows in one list
flatten(allele_idxs) ==
    LET RECURSIVE upto(_)
        upto(n) == IF n = 0 THEN <<>> ELSE upto(n - 1) \o allele_idxs[n]
    IN  upto(Len(allele_idxs))

\* the number of entries of a list that equal v
count_of(entries, v) == Cardinality({ i \in 1..Len(entries) : entries[i] = v })

\* the largest entry of a non-empty list
max_of(entries) ==
    CHOOSE m \in { entries[i] : i \in 1..Len(entries) } :
        \A i \in 1..Len(entries) : entries[i] <= m

\* np.bincount(entries): one count for every value from 0 to the largest
\* entry (the count of value v is at position v + 1)
bincount(entries) ==
    IF Len(entries) = 0 THEN <<>>
    ELSE [p \in 1..(max_of(entries) + 1) |-> count_of(entries, p - 1)]

\* the elif branch of maf: the last count is dropped when there are exactly
\* MISSING_IDX counts
drop_last_count(allele_counts) ==
    IF Len(allele_counts) = MISSING_IDX
    THEN SubSeq(allele_counts, 1, Len(allele_counts) - 1)
    ELSE allele_counts

\* InfoMixin.maf
maf(allele_idxs) ==
    LET entries == flatten(allele_idxs)
        total_nonmissing_alleles == Len(entries) - count_of(entries, MISSING_IDX)
        allele_counts == bincount(entries)
    IN  IF total_nonmissing_alleles = 0 THEN NaN
        ELSE IF Len(allele_counts) = 1 THEN Fraction(0, 1)
        ELSE Fraction(max_of(Tail(drop_last_count(allele_counts))), total_nonmissing_alleles)

\* the results of hwe_pval: NaN, 1.0, or the p-value that scipy's chisquare
\* gives for the observed and expected counts
HweNaN == [kind |-> "nan", observed |-> <<>>, expected |-> <<>>]
HweOne == [kind |-> "one", observed |-> <<>>, expected |-> <<>>]
HweChisquare(observed, expected) ==
    [kind |-> "chisquare", observed |-> observed, expected |-> expected]

\* combinations_with_replacement(range(n), 2): the pairs (a1, a2), a1 <= a2,
\* in lexicographic order
combinations_with_replacement(n) ==
    LET RECURSIVE from(_, _)
        from(a1, a2) ==
            IF a1 >= n THEN <<>>
            ELSE IF a2 >= n THEN from(a1 + 1, a1 + 1)
            ELSE << <<a1, a2>> >> \o from(a1, a2 + 1)
    IN  from(0, 0)

\* The float64 arithmetic of hwe_pval.  A float is a record [m, e] that
\* stands for m * 2^e; m is a natural number written as a list of 13-bit
\* limbs, least significant first, and holds at most 53 significant bits.
Base == 2 ^ 13

\* the limbs of a list of limb sums, carries propagated
RECURSIVE carry_limbs(_, _)
carry_limbs(raw, carry) ==
    IF raw = <<>>
    THEN IF carry = 0 THEN <<>> ELSE <<carry % Base>> \o carry_limbs(<<>>, carry \div Base)
    ELSE <<(Head(raw) + carry) % Base>>
            \o carry_limbs(Tail(raw), (Head(raw) + carry) \div Base)

limb(a, i) == IF i \in 1..Len(a) THEN a[i] ELSE 0

\* bit i (from 0) of a
bit(a, i) == (limb(a, (i \div 13) + 1) \div (2 ^ (i % 13))) % 2

RECURSIVE int_bit_length(_)
int_bit_length(v) == IF v = 0 THEN 0 ELSE 1 + int_bit_length(v \div 2)

\* the number of bits of a, 0 for zero
RECURSIVE bit_length(_)
bit_length(a) ==
    IF a = <<>> THEN 0
    ELSE IF a[Len(a)] = 0 THEN bit_length(SubSeq(a, 1, Len(a) - 1))
    ELSE 13 * (Len(a) - 1) + int_bit_length(a[Len(a)])

\* floor(a / 2^s), written with the given number of limbs
shift_right(a, s, limbs) ==
    [j \in 1..limbs |->
        (limb(a, j + (s \div 13)) \div (2 ^ (s % 13)))
            + (limb(a, j + (s \div 13) + 1) % (2 ^ (s % 13))) * (2 ^ (13 - (s % 13)))]

\* the product of two naturals
big_mul(a, b) ==
    LET RECURSIVE column(_, _)
        column(k, i) ==
            IF i = 0 THEN 0 ELSE limb(a, i) * limb(b, k + 1 - i) + column(k, i - 1)
    IN  carry_limbs([k \in 1..(Len(a) + Len(b) - 1) |-> column(k, Len(a))], 0)

RECURSIVE big_to_int(_)
big_to_int(a) == IF a = <<>> THEN 0 ELSE Head(a) + Base * big_to_int(Tail(a))

\* the float nearest to q * 2^e, ties to the even mantissa
round_to_float(q, e) ==
    LET s == bit_length(q) - 53
    IN  IF s <= 0 THEN [m |-> q, e |-> e]
        ELSE LET kept == shift_right(q, s, 5)
                 half == bit(q, s - 1) = 1
                 lower == \E i \in 0..(s - 2) : bit(q, i) = 1
                 odd == bit(q, s) = 1
             IN  [m |-> IF half /\ (lower \/ odd) THEN carry_limbs(kept, 1) ELSE kept,
                  e |-> e + s]

\* the next n bits of the quotient of r / t below the point, for r < t, and
\* the remainder after them
RECURSIVE quotient_bits(_, _, _)
quotient_bits(r, t, n) ==
    IF n = 0 THEN [q |-> 0, r |-> r]
    ELSE LET high == quotient_bits(r, t, n - 1)
         IN  [q |-> 2 * high.q + (IF 2 * high.r >= t THEN 1 ELSE 0),
              r |-> IF 2 * high.r >= t THEN 2 * high.r - t ELSE 2 * high.r]

\* the next n limbs of the quotient of r / t below the point and the
\* remainder after them; q holds the limbs above them, least significant
\* first
RECURSIVE quotient_limbs(_, _, _, _)
quotient_limbs(r, t, n, q) ==
    IF n = 0 THEN [q |-> q, r |-> r]
    ELSE CHOOSE d \in { quotient_limbs(high.r, t, n - 1, <<high.q>> \o q) :
                            high \in {quotient_bits(r, t, 13)} } : TRUE

\* c / t for two ints, 0 <= c and 0 < t < 2^30: the quotient to 91 bits below
\* the point and one more bit that is set when a remainder is left, rounded
float_div(c, t) ==
    LET d == quotient_limbs(c % t, t, 7, carry_limbs(<<c \div t>>, 0))
    IN  round_to_float(
            carry_limbs([i \in 1..Len(d.q) |->
                            2 * d.q[i] + (IF i = 1 /\ d.r # 0 THEN 1 ELSE 0)], 0),
            -92)

\* x * y for two floats
float_mul(x, y) == round_to_float(big_mul(x.m, y.m), x.e + y.e)

\* x * n for a float and an int
float_mul_int(x, n) == round_to_float(big_mul(x.m, carry_limbs(<<n>>, 0)), x.e)

\* int(x): the integer part
float_int(x) ==
    IF x.e >= 0 THEN big_to_int(x.m) * (2 ^ x.e)
    ELSE big_to_int(shift_right(x.m, -x.e, Len(x.m)))

\* int(a1_freq * a2_freq * total_gt * 2) for a1 # a2 and
\* int(a1_freq * a2_freq * total_gt) for a1 = a2, where a frequency is
\* allele_counts / total_alleles; every operation rounds to a float
expected_count(allele_counts, total_gt, a1, a2) ==
    LET total_alleles == total_gt * 2
        a1_freq == float_div(allele_counts[a1 + 1], total_alleles)
        a2_freq == float_div(allele_counts[a2 + 1], total_alleles)
        product == float_mul_int(float_mul(a1_freq, a2_freq), total_gt)
    IN  IF a1 # a2 THEN float_int(float_mul_int(product, 2))
        ELSE float_int(product)

\* no expected count is taken to be too small unless it is below 1
expected_below_one(expected) == \E k \in 1..Len(expected) : expected[k] < 1

\* min(expected) < 5
expected_below_five(expected) == \E k \in 1..Len(expected) : expected[k] < 5

\* InfoMixin.hwe_pval, under required_ploidy(2, np.nan)
hwe_pval(variant, allele_idxs) ==
    IF variant.ploidy # 2 THEN HweNaN
    ELSE LET nonmissing_aidxs ==
                 SelectSeq(allele_idxs, LAMBDA row : max_of(row) # MISSING_IDX)
             allele_counts == bincount(flatten(nonmissing_aidxs))
             total_gt == Len(nonmissing_aidxs)
             pairs == combinations_with_replacement(Len(allele_counts))
             expected == [k \in 1..Len(pairs) |->
                            expected_count(allele_counts, total_gt, pairs[k][1], pairs[k][2])]
             observed == [k \in 1..Len(pairs) |-> count_of(nonmissing_aidxs, pairs[k])]
         IN  IF Len(nonmissing_aidxs) = 0 THEN HweNaN
             ELSE IF total_gt < 2 THEN HweNaN
             ELSE IF Len(allele_counts) = 1 THEN HweOne
             ELSE IF expected_below_five(expected) THEN HweNaN
             ELSE HweChisquare(observed, expected)

MaxInfoRows == 2

\* the numbers of rows of one kind in a column
CountInputs == { 0, 1, 5, 10 }

\* n rows that hold the same indices
Repeat(row, n) == [k \in 1..n |-> row]

\* the kinds of rows of the long columns: A/A, T/T, A/T, one allele missing,
\* both alleles missing
InfoRows ==
    << <<0, 0>>, <<1, 1>>, <<0, 1>>, <<0, MISSING_IDX>>, <<MISSING_IDX, MISSING_IDX>> >>

\* a column of counts[k] rows of every kind k, kind after kind
BlockColumn(counts) ==
    LET RECURSIVE upto(_)
        upto(n) == IF n = 0 THEN <<>> ELSE upto(n - 1) \o Repeat(InfoRows[n], counts[n])
    IN  upto(Len(InfoRows))

\* columns of 49 complete rows whose float expected counts fall below the
\* exact ones: allele counts [28, 70] (expected 3, 20, 25) and [42, 56]
\* (expected 9, 23, 15)
RoundingColumns ==
    { BlockColumn(<<0, 21, 28, 0, 0>>), BlockColumn(<<7, 14, 28, 0, 1>>) }

\* the columns of a Variant: short columns of any of its rows, and for a
\* diploid Variant with alternate alleles the long columns
InfoColumns(variant) ==
    UNION { SeqsOf(EncodeRows(variant), n) : n \in 0..MaxInfoRows }
        \cup (IF Len(variant.alleles) >= 2 /\ variant.ploidy = 2
              THEN { BlockColumn(counts) : counts \in [1..Len(InfoRows) -> CountInputs] }
                      \cup RoundingColumns
              ELSE {})

InitInfo ==
    /\ pc = "arrays"
    /\ \E alleles \in EncodePalettes, ploidy \in EncodePloidies :
          /\ variants = << EncodeVariant(alleles, ploidy) >>
          /\ \E data \in InfoColumns(EncodeVariant(alleles, ploidy)) :
                arrays = << NewArray(1, data) >>
    /\ last = NoCall
    /\ IdlePlink /\ IdleVariant

\* the record of one statistic of array a
InfoCalled(op, a, result) == [NoCall EXCEPT !.op = op, !.array = a, !.result = result]

\* a.maf
Maf(a) ==
    /\ pc = "arrays"
    /\ a \in 1..Len(arrays)
    /\ last' = InfoCalled("maf", a, maf(arrays[a].data))
    /\ UNCHANGED <<pc, variants, arrays, plinkVars, variantVars>>

\* a.hwe_pval
HwePval(a) ==
    /\ pc = "arrays"
    /\ a \in 1..Len(arrays)
    /\ last' = InfoCalled("hwe_pval", a, hwe_pval(variants[arrays[a].variant], arrays[a].data))
    /\ UNCHANGED <<pc, variants, arrays, plinkVars, variantVars>>

NextInfo ==
    \/ Maf(1)
    \/ HwePval(1)

SpecInfo == InitInfo /\ [][NextInfo]_vars

-----------------------------------------------------------------------------
(* The dtype string (genotype_array.py): GenotypeDtype.__str__ and          *)
(* construct_from_string.  A string is the sequence of its characters.      *)

\* an optional chromosome and an optional score
NoChromosome == [none |-> TRUE, val |-> <<>>]
Chromosome(chars) == [none |-> FALSE, val |-> chars]
NoScore == [none |-> TRUE, val |-> 0]
Score(n) == [none |-> FALSE, val |-> n]

\* str(None)
NoneStr == <<"N", "o", "n", "e">>

\* a Variant with all the fields Variant.__eq__ compares
DtypeVariant(chromosome, position, id, alleles, ploidy, score) ==
    [chromosome |-> chromosome, position |-> position, id |-> id,
     alleles |-> alleles, ploidy |-> ploidy, score |-> score]

\* Variant.__eq__
Variant_eq_all(v, w) ==
    /\ v.chromosome = w.chromosome /\ v.position = w.position /\ v.id = w.id
    /\ v.alleles = w.alleles /\ v.ploidy = w.ploidy /\ v.score = w.score

\* int(str) of a string of digits
RECURSIVE int_parse(_)
int_parse(str) ==
    IF Len(str) = 0 THEN 0
    ELSE int_parse(SubSeq(str, 1, Len(str) - 1)) * 10
           + (CHOOSE d \in 0..9 : Digits[d + 1] = str[Len(str)])

DtypePrefix == <<"g", "e", "n", "o", "t", "y", "p", "e", "[">>

\* GenotypeDtype.__str__:
\* genotype[<chromosome>; <position>; <id>; <ref>; <alt>] with Variant.ref
\* and Variant.alt, the alternate alleles joined by ","
GenotypeDtype_str(v) ==
    DtypePrefix
        \o (IF v.chromosome.none THEN NoneStr ELSE v.chromosome.val) \o <<";", " ">>
        \o int_str(v.position) \o <<";", " ">>
        \o v.id \o <<";", " ">>
        \o v.alleles[1] \o <<";", " ">>
        \o join(",", Tail(v.alleles)) \o <<"]">>

\* the character "." of a regular expression does not match
LineBreak == "\n"

\* GenotypeDtype._match.match(string): the positions of the four "; " and of
\* the "]" that the regular expression settles on.  Every group but position
\* is .+, position is [0-9]+; a .+ takes as much as the rest of the pattern
\* allows, the groups on the left first.
regex_matches(string) ==
    LET seps == { p \in 1..(Len(string) - 1) : string[p] = ";" /\ string[p + 1] = " " }
        closes == { p \in 1..Len(string) : string[p] = "]" }
    IN  { m \in seps \X seps \X seps \X seps \X closes :
            /\ Len(string) >= Len(DtypePrefix)
            /\ SubSeq(string, 1, Len(DtypePrefix)) = DtypePrefix
            /\ m[1] > Len(DtypePrefix) + 1
            /\ m[2] > m[1] + 2 /\ m[3] > m[2] + 2 /\ m[4] > m[3] + 2 /\ m[5] > m[4] + 2
            /\ \A p \in (m[1] + 2)..(m[2] - 1) : is_digit(string[p])
            \* "." matches every character but a line break
            /\ \A p \in (Len(DtypePrefix) + 1)..(m[5] - 1) : string[p] # LineBreak }

\* the tuple of positions m comes before n in the order of the search
greedier(m, n) ==
    \E k \in 1..5 : m[k] > n[k] /\ \A j \in 1..(k - 1) : m[j] = n[j]

regex_groupdict(string) ==
    LET m == CHOOSE x \in regex_matches(string) :
                 \A y \in regex_matches(string) : y = x \/ greedier(x, y)
    IN  [chromosome |-> SubSeq(string, Len(DtypePrefix) + 1, m[1] - 1),
         position |-> SubSeq(string, m[1] + 2, m[2] - 1),
         id |-> SubSeq(string, m[2] + 2, m[3] - 1),
         ref |-> SubSeq(string, m[3] + 2, m[4] - 1),
         alt |-> SubSeq(string, m[4] + 2, m[5] - 1)]

contains_sep(str) == \E i \in 1..Len(str) : str[i] = ";" \/ str[i] = ","

NoDtype ==
    [ok |-> FALSE, variant |-> DtypeVariant(NoChromosome, 0, <<>>, <<>>, 0, NoScore)]

\* GenotypeDtype.construct_from_string(string): the groups go to Variant(...)
\* with the default ploidy and no score; no match and every error of the
\* Variant constructor end in TypeError
construct_from_string(string) ==
    IF regex_matches(string) = {} THEN NoDtype
    ELSE LET d == regex_groupdict(string)
             made == Variant_init(d.ref, split(d.alt, ","))
             position == int_parse(d.position)
         IN  IF ~made.ok \/ contains_sep(d.chromosome) \/ contains_sep(d.id)
                \/ position > 2147483646
             THEN NoDtype
             ELSE [ok |-> TRUE,
                   variant |-> DtypeVariant(Chromosome(d.chromosome), position, d.id,
                                            made.alleles, DefaultPloidy, NoScore)]

\* the Variants of a run
DtypeChromosomes == { NoChromosome, Chromosome(<<"1", "2">>), Chromosome(<<"c", "h", "r", "1">>) }
DtypePositions == { 0, 7, 123456 }
DtypeIds == { <<"r", "s", "1">> }
DtypeAlts == { <<>>, << <<"C">> >>, << <<"T">>, <<"G">> >> }
DtypeScores == { NoScore, Score(30) }

\* strings given to construct_from_string besides the rendered one: the
\* example of its docstring, two strings of the tests, and two strings with a
\* line break, inside a group and after the closing bracket
DtypeStrings ==
    { <<"g", "e", "n", "o", "t", "y", "p", "e", "[", "c", "h", "r", "1", ";", " ", "1", "2", "3", "4", "5", "6", ";", " ", "r", "s", "1", "2", "3", "4", "5", ";", " ", "A", ";", " ", "T", ",", "G", "]">>,
      <<"g", "e", "n", "o", "t", "y", "p", "e", "(", "2", "n", ")", "[", "1", "2", ";", " ", "1", "1", "2", "1", "6", "1", "6", "5", "2", ";", " ", "r", "s", "1", "2", "4", "6", "2", ";", " ", "T", ";", " ", "C", "]">>,
      <<"g", "e", "n", "o", "t", "y", "p", "e", "[", "1", "2", ";", " ", "1", "1", "2", "1", "6", "1", "6", "5", "2", ";", " ", "T", ";", " ", "C", "]">>,
      <<"g", "e", "n", "o", "t", "y", "p", "e", "[", "c", LineBreak, "r", ";", " ", "5", ";", " ", "r", "s", "1", ";", " ", "A", ";", " ", "C", "]">>,
      <<"g", "e", "n", "o", "t", "y", "p", "e", "[", "1", ";", " ", "5", ";", " ", "r", "s", "1", ";", " ", "A", ";", " ", "C", "]", LineBreak>> }

InitDtype ==
    /\ pc = "arrays"
    /\ \E chromosome \in DtypeChromosomes, position \in DtypePositions, id \in DtypeIds,
          alt \in DtypeAlts, ploidy \in EncodePloidies, score \in DtypeScores :
          variants = << DtypeVariant(chromosome, position, id, <<<<"A">>>> \o alt, ploidy, score) >>
    /\ arrays = <<>>
    /\ last = NoCall
    /\ IdlePlink /\ IdleVariant

\* str(GenotypeDtype(v))
DtypeStr(v) ==
    /\ pc = "arrays"
    /\ v \in 1..Len(variants)
    /\ last' = [NoCall EXCEPT !.op = "str", !.string = GenotypeDtype_str(variants[v])]
    /\ UNCHANGED <<pc, variants, arrays, plinkVars, variantVars>>

\* GenotypeDtype.construct_from_string(string)
ConstructFromString(string) ==
    /\ pc = "arrays"
    /\ LET r == construct_from_string(string)
       IN  last' = [NoCall EXCEPT !.op = "construct_from_string", !.string = string,
                                  !.ok = r.ok, !.result = r.variant]
    /\ UNCHANGED <<pc, variants, arrays, plinkVars, variantVars>>

NextDtype ==
    \/ DtypeStr(1)
    \/ last.op = "str" /\ ConstructFromString(last.string)
    \/ \E string \in DtypeStrings : ConstructFromString(string)

SpecDtype == InitDtype /\ [][NextDtype]_vars

-----------------------------------------------------------------------------
(* to_plink: the three files of a data set (to_plink.py).  The genotype    *)
(* columns of the DataFrame are the arrays of the heap, in column order;   *)
(* num_samples, variant_list and bed_file hold what was written to the     *)
(* .fam, .bim and .bed file.                                               *)

MaxColumns == 2

MaxFrameRows == 2

NotWritten == <<>>
Written(content) == <<content>>

\* data.index.names: the six .fam columns, a single column, or two columns
IndexInputs == { "fam", "single", "pair" }

\* phenotype_name: None, a column of the data, or a name the data lacks
PhenotypeInputs == { "None", "column", "absent" }

\* save_fam: the number of rows written to the .fam file, or the error.
\* encode: phenotype_control and phenotype_case are both given;
\* categorical: the dtype of the phenotype column (or index level) is category
save_fam(n_rows, index_names, phenotype_name, encode, categorical) ==
    LET is_category == IF index_names = "single" /\ phenotype_name = "None"
                       THEN FALSE  \* np.ones(len(data)) * -9
                       ELSE categorical
    IN  IF phenotype_name = "absent" THEN [ok |-> FALSE, file |-> NotWritten]
        ELSE IF index_names = "pair" THEN [ok |-> FALSE, file |-> NotWritten]
        ELSE IF encode /\ ~is_category THEN [ok |-> FALSE, file |-> NotWritten]
        ELSE [ok |-> TRUE, file |-> Written(n_rows)]

\* save_bim: one row per variant, or the error when a variant is not biallelic
save_bim(palettes) ==
    IF \E v \in 1..Len(palettes) : Len(palettes[v]) # 2
    THEN [ok |-> FALSE, file |-> NotWritten]
    ELSE [ok |-> TRUE,
          file |-> Written([v \in 1..Len(palettes) |->
                              [allele1 |-> palettes[v][2], allele2 |-> palettes[v][1]]])]

\* the list comprehension of save_bed: the bytes of the genotype columns in
\* column order; the columns after one that raised are not reached
RECURSIVE save_bed_columns(_, _)
save_bed_columns(columns, is_storage) ==
    IF columns = <<>> THEN [ok |-> TRUE, bytes |-> <<>>, columns |-> <<>>]
    ELSE LET first == gt_array_to_plink_bits(Head(columns))
             rest == save_bed_columns(Tail(columns), is_storage)
         IN  IF ~first.ok
             THEN [ok |-> FALSE, bytes |-> <<>>,
                   columns |-> <<column_after_plink_bits(Head(columns), is_storage)>> \o Tail(columns)]
             ELSE [ok |-> rest.ok, bytes |-> first.bytes \o rest.bytes,
                   columns |-> <<column_after_plink_bits(Head(columns), is_storage)>> \o rest.columns]

\* the bytes tofile writes for the float64 array [108., 27., 1.]
FLOAT_FIRST_BYTES ==
    <<0, 0, 0, 0, 0, 0, 91, 64, 0, 0, 0, 0, 0, 0, 59, 64, 0, 0, 0, 0, 0, 0, 240, 63>>

\* save_bed: the first three bytes and the bytes of every genotype column.
\* Without a genotype column np.array([]) is a float64 array and so is the
\* concatenation
save_bed(columns, is_storage) ==
    LET r == save_bed_columns(columns, is_storage)
    IN  IF ~r.ok THEN [ok |-> FALSE, file |-> NotWritten, columns |-> r.columns]
        ELSE IF columns = <<>>
        THEN [ok |-> TRUE, file |-> Written(FLOAT_FIRST_BYTES), columns |-> r.columns]
        ELSE [ok |-> TRUE, file |-> Written(CORRECT_FIRST_BYTES \o r.bytes),
              columns |-> r.columns]

\* to_plink: save_fam, then save_bim, then save_bed; the first error ends the
\* call and leaves the files written so far
to_plink(n_rows, palettes, columns, index_names, phenotype_name, encode, categorical, is_storage) ==
    LET fam == save_fam(n_rows, index_names, phenotype_name, encode, categorical)
        bim == save_bim(palettes)
        bed == save_bed(columns, is_storage)
        nothing == [ok |-> FALSE, fam |-> NotWritten, bim |-> NotWritten,
                    bed |-> NotWritten, columns |-> columns]
    IN  IF ~fam.ok THEN nothing
        ELSE IF ~bim.ok THEN [nothing EXCEPT !.fam = fam.file]
        ELSE [ok |-> bed.ok, fam |-> fam.file, bim |-> bim.file, bed |-> bed.file,
              columns |-> bed.columns]

\* palettes of the genotype columns: only a reference allele, biallelic, and
\* two alternate alleles
FramePalettes == { <<"A">>, <<"A", "C">>, <<"A", "C", "G">> }

\* rows a column of the given palette is built with
FrameRows(alleles) ==
    { row \in { <<0, 0>>, <<0, 1>>, <<1, 1>>, <<MISSING_IDX, MISSING_IDX>> } :
        \A f \in 1..2 : row[f] = MISSING_IDX \/ row[f] < Len(alleles) }

InitFrame ==
    /\ pc = "frame"
    /\ \E nc \in 1..MaxColumns, n \in 1..MaxFrameRows :
          /\ \E ps \in SeqsOf(FramePalettes, nc) :
                variants = [c \in 1..nc |-> NewVariant("rs1", ps[c])]
          /\ \E cols \in SeqsOf(SeqsOf(FrameRows(<<"A", "C">>), n), nc) :
                /\ \A c \in 1..nc : \A k \in 1..n :
                      cols[c][k] \in FrameRows(variants[c].alleles)
                /\ arrays = [c \in 1..nc |-> NewArray(c, cols[c])]
    /\ last = NoCall
    /\ gt_rows = <<>> /\ input_rows = <<>> /\ plink_bits = NoBits /\ loaded = NoLoad
    /\ num_samples = NotWritten /\ variant_list = NotWritten /\ bed_file = NotWritten
    /\ IdleVariant

ToPlink(index_names, phenotype_name, encode, categorical, is_storage) ==
    /\ pc = "frame"
    /\ LET r == to_plink(Len(arrays[1].data),
                         [c \in 1..Len(arrays) |-> variants[arrays[c].variant].alleles],
                         [c \in 1..Len(arrays) |-> arrays[c].data],
                         index_names, phenotype_name, encode, categorical, is_storage)
       IN  /\ pc' = IF r.ok THEN "saved" ELSE "save_failed"
           /\ num_samples' = r.fam
           /\ variant_list' = r.bim
           /\ bed_file' = r.bed
           /\ arrays' = [c \in 1..Len(arrays) |-> [arrays[c] EXCEPT !.data = r.columns[c]]]
           /\ last' = Called("to_plink", 0, r.ok)
    /\ UNCHANGED <<variants, gt_rows, input_rows, plink_bits, loaded, variantVars>>

NextToPlink ==
    \E index_names \in IndexInputs, phenotype_name \in PhenotypeInputs,
       encode \in BOOLEAN, categorical \in BOOLEAN, is_storage \in BOOLEAN :
        ToPlink(index_names, phenotype_name, encode, categorical, is_storage)

SpecToPlink == InitFrame /\ [][NextToPlink]_vars

-----------------------------------------------------------------------------
(* Claims about the PLINK codec, checked under SpecPlink *)

BiallelicRows == { <<0, 0>>, <<0, 1>>, <<1, 1>>, <<MISSING_IDX, MISSING_IDX>> }

InputIsBiallelic == \A k \in 1..Len(input_rows) : input_rows[k] \in BiallelicRows

\* the 2-bit code of sample k (0-based) in a record, as a string of two bits:
\* bits (2*(k mod 4)+1, 2*(k mod 4)) of byte (k div 4)
SampleCode(bytes, k) ==
    LET byte == bytes[(k \div 4) + 1]
        hi == (byte \div (2 ^ (2 * (k % 4) + 1))) % 2
        lo == (byte \div (2 ^ (2 * (k % 4)))) % 2
    IN  <<hi, lo>>

CodeString(code) ==
    IF code = <<0, 0>> THEN "00"
    ELSE IF code = <<0, 1>> THEN "01"
    ELSE IF code = <<1, 0>> THEN "10"
    ELSE "11"

\* C1: for a column of N >= 1 rows drawn from (0,0), (0,1), (1,1) and
\* (MISSING, MISSING), gt_array_to_plink_bits succeeds and create_gt_array on
\* its bytes yields the original rows, row for row.
C1_RoundTrip ==
    (pc \in {"written", "write_failed", "decoded"} /\ InputIsBiallelic)
        => /\ pc # "write_failed"
           /\ pc = "decoded" => loaded.arrays[1].data = input_rows

\* the code the claim expects for a row
ExpectedCode(row) ==
    IF row = <<0, 0>> THEN "00"
    ELSE IF row = <<0, 1>> THEN "10"
    ELSE IF row = <<1, 1>> THEN "11"
    ELSE "01"

\* C2: the bytes written hold, for every row of a biallelic diploid column,
\* code 00 for (0,0), 10 for (0,1), 11 for (1,1) and 01 for a fully missing
\* row; a missing row is never written with the heterozygous code.
C2_WriteCodes ==
    (pc = "written" /\ InputIsBiallelic)
        => \A k \in 0..(Len(input_rows) - 1) :
              CodeString(SampleCode(plink_bits.bytes, k)) = ExpectedCode(input_rows[k + 1])

\* the records decoded in this state with the rows create_gt_array made of them
DecodedRecords ==
    IF pc = "decoded"
    THEN { [bytes |-> plink_bits.bytes, data |-> loaded.arrays[1].data,
            alleles |-> variant_list[1]] }
    ELSE IF pc = "loaded" /\ ~loaded.swap
    THEN { [bytes |-> SubSeq(bed_file, 3 + chunk_size(num_samples) * (v - 1) + 1,
                             3 + chunk_size(num_samples) * v),
            data |-> loaded.arrays[v].data, alleles |-> variant_list[v]] :
           v \in { w \in 1..Len(loaded.arrays) : loaded.arrays[w].calls = <<>> } }
    ELSE {}

\* the records that differ from bytes only in the padding bit pairs of the
\* last byte
SamePaddedRecords(bytes, n) ==
    LET used == 4 ^ (((n - 1) % 4) + 1)
    IN  { [bytes EXCEPT ![Len(bytes)] = (bytes[Len(bytes)] % used) + used * padding] :
            padding \in 0..((256 \div used) - 1) }

\* the rows the four codes stand for
CodeRow(code) ==
    IF code = "00" THEN <<0, 0>>
    ELSE IF code = "01" THEN <<MISSING_IDX, MISSING_IDX>>
    ELSE IF code = "10" THEN <<0, 1>>
    ELSE <<1, 1>>

\* exactly N rows are returned and the padding bit pairs do not influence them
ExactlyNRows(r) ==
    /\ Len(r.data) = num_samples
    /\ \A other \in SamePaddedRecords(r.bytes, num_samples) :
          create_gt_array(num_samples, other) = r.data

\* C3: every sample k of a record is decoded from bits (2*(k mod 4)+1,
\* 2*(k mod 4)) of byte (k div 4) by the mapping 00 -> (0,0), 01 -> missing,
\* 10 -> (0,1), 11 -> (1,1), which is what make_genotype_from_plink_bits of
\* the record's Variant makes of the code; exactly N rows are returned and the
\* padding bit pairs do not influence them.
C3_ReadCodes ==
    \A r \in DecodedRecords :
        /\ ExactlyNRows(r)
        /\ \A k \in 0..(num_samples - 1) :
              LET code == CodeString(SampleCode(r.bytes, k))
                  scalar == make_genotype_from_plink_bits(r.alleles, code)
              IN  /\ r.data[k + 1] = CodeRow(code)
                  /\ scalar.ok /\ scalar.idxs = r.data[k + 1]

\* C4: load_genotypes fails, producing no GenotypeArray, whenever the first
\* three bytes are not 0x6C 0x1B 0x01; when they match, decoding starts at the
\* fourth byte.
C4_MagicBytes ==
    /\ (pc \in {"loaded", "load_failed"} /\ SubSeq(bed_file, 1, 3) # <<108, 27, 1>>)
          => (pc = "load_failed" /\ loaded.status = "error" /\ loaded.arrays = <<>>)
    /\ (pc = "loaded" /\ ~loaded.swap)
          => \A v \in 1..Len(loaded.arrays) :
                loaded.arrays[v].calls = <<>> =>
                   loaded.arrays[v].data =
                      create_gt_array(num_samples,
                          SubSeq(bed_file, 4 + chunk_size(num_samples) * (v - 1),
                                 3 + chunk_size(num_samples) * v))

C4_Witness ==
    /\ pc = "load_failed" /\ loaded.status = "error"
    /\ SubSeq(bed_file, 1, 2) = <<108, 27>> /\ bed_file[3] # 1

AllBiallelic == \A w \in 1..Len(variant_list) : Len(variant_list[w]) = 2

\* C7: in a file of biallelic variants, a column loaded with swap_alleles=True
\* is the column loaded normally followed by set_reference(1), and
\* set_reference(1) applied to it gives back the palette and the rows of the
\* column loaded normally.
C7_SwapUndone ==
    (pc = "loaded" /\ AllBiallelic) =>
        \A v \in 1..Len(loaded.arrays) :
            loaded.arrays[v].calls = <<IntTarget(1)>> =>
                LET other == load_genotypes(bed_file, variant_list, num_samples, ~loaded.swap)
                IN  /\ other.ok
                    /\ loaded.arrays[v].alleles = other.arrays[v].alleles
                    /\ loaded.arrays[v].data = other.arrays[v].data
                    /\ loaded.swap =>
                          /\ loaded.arrays[v].alleles = variant_list[v]
                          /\ loaded.arrays[v].data =
                                create_gt_array(num_samples,
                                    SubSeq(bed_file, 4 + chunk_size(num_samples) * (v - 1),
                                           3 + chunk_size(num_samples) * v))

C7_Witness ==
    /\ pc = "loaded" /\ loaded.swap
    /\ loaded.arrays[1].calls = <<IntTarget(1)>>
    /\ \E k \in 1..num_samples : loaded.arrays[1].data[k] = <<0, 1>>
    /\ \E k \in 1..num_samples : loaded.arrays[1].data[k] = <<1, 1>>
    /\ \E k \in 1..num_samples : loaded.arrays[1].data[k] = <<MISSING_IDX, MISSING_IDX>>

-----------------------------------------------------------------------------
(* Claims about set_reference, checked under SpecSetRef *)

\* the index a set_reference argument resolves to in a palette
ResolvedIdx(alleles, target) ==
    IF target.kind = "str" THEN get_allele_idx(alleles, target.val).idx ELSE target.val

\* what a stored index denotes under a palette
Decoded(alleles, idx) == IF idx = MISSING_IDX THEN "missing" ELSE alleles[idx + 1]

SetRefReturned == pc = "arrays" /\ last.op = "set_reference" /\ last.ok

\* C5: set_reference is a pure relabeling.  After a call whose argument
\* resolves to index i > 0 the palette has the chosen allele at index 0 and
\* the former reference at index i, every other entry is unchanged, every
\* stored 0 has become i and every stored i has become 0, every other stored
\* index (MISSING_IDX included) is unchanged, and every stored index denotes
\* the allele it denoted before the call; when i = 0 nothing changes.
C5_PureRelabeling ==
    SetRefReturned =>
        LET pre == last.pre_alleles
            post == variants[arrays[last.array].variant].alleles
            pre_data == last.pre_data
            data == arrays[last.array].data
            i == ResolvedIdx(pre, last.target)
        IN  /\ i \in 0..(Len(pre) - 1)
            /\ i = 0 => post = pre /\ data = pre_data
            /\ i > 0 =>
                  /\ Len(post) = Len(pre)
                  /\ post[1] = pre[i + 1]
                  /\ last.target.kind = "str" => post[1] = last.target.val
                  /\ post[i + 1] = pre[1]
                  /\ \A j \in 1..Len(pre) : (j # 1 /\ j # i + 1) => post[j] = pre[j]
                  /\ Len(data) = Len(pre_data)
                  /\ \A k \in 1..Len(pre_data) : \A f \in 1..2 :
                        /\ pre_data[k][f] = 0 => data[k][f] = i
                        /\ pre_data[k][f] = i => data[k][f] = 0
                        /\ pre_data[k][f] \notin {0, i} => data[k][f] = pre_data[k][f]
                        /\ Decoded(post, data[k][f]) = Decoded(pre, pre_data[k][f])

C5_Witness ==
    /\ SetRefReturned
    /\ ResolvedIdx(last.pre_alleles, last.target) = 2
    /\ \E k \in 1..Len(last.pre_data) : \E f \in 1..2 : last.pre_data[k][f] = 0
    /\ \E k \in 1..Len(last.pre_data) : \E f \in 1..2 : last.pre_data[k][f] = 2
    /\ \E k \in 1..Len(last.pre_data) : \E f \in 1..2 : last.pre_data[k][f] = MISSING_IDX

\* the second of two calls in a row with the same argument
SecondCallSameTarget ==
    SetRefReturned /\ last.n >= 2 /\ last.prev_target = last.target

SecondCallChangedNothing ==
    /\ variants[arrays[last.array].variant].alleles = last.pre_alleles
    /\ arrays[last.array].data = last.pre_data

\* C6 as stated: for every accepted argument, an allele string or an integer
\* index, the second of two calls in a row with the same argument leaves the
\* palette and the stored records as they were after the first call.
C6_Idempotent == SecondCallSameTarget => SecondCallChangedNothing

\* C6 for allele strings: the second of two calls in a row with the same
\* allele string leaves the palette and the stored records as they were after
\* the first call.
C6_IdempotentForStrings ==
    (SecondCallSameTarget /\ last.target.kind = "str") => SecondCallChangedNothing

\* the first call moved an allele to the front, the second named it again
C6_Witness ==
    /\ SecondCallSameTarget /\ last.target.kind = "str"
    /\ last.pre_alleles[1] = last.target.val /\ last.target.val # "A"
    /\ \E k \in 1..Len(last.pre_data) : \E f \in 1..2 : last.pre_data[k][f] = 0

-----------------------------------------------------------------------------
(* Claims about the GenotypeArray operations, checked under SpecArrays *)

\* C8: after any sequence of GenotypeArray operations every stored allele
\* index of every array is MISSING_IDX or a valid index into the palette of
\* the array's Variant, and the length of an array is the length it was built
\* with.
C8_StoredIndicesValid ==
    pc = "arrays" =>
        \A a \in 1..Len(arrays) :
            /\ Len(arrays[a].data) = arrays[a].built_len
            /\ \A k \in 1..Len(arrays[a].data) : \A f \in 1..2 :
                  is_valid_allele_idx(variants[arrays[a].variant].alleles,
                                      arrays[a].data[k][f])

-----------------------------------------------------------------------------
(* Claims about the Variant palette, checked under SpecVariant *)

\* the largest number of alleles of a Variant
MaxAlleles == 254

NoTwoEqual(alleles) ==
    \A i \in 1..Len(alleles) : \A j \in 1..Len(alleles) : alleles[i] = alleles[j] => i = j

\* C9: in every state of a constructed Variant no two entries of the palette
\* are equal, and no call has left the palette shorter than it found it.
C9_PaletteDistinct ==
    pc = "variant" =>
        /\ NoTwoEqual(palette)
        /\ Len(palette) >= Len(palette_log.pre)

\* C10: the palette never holds more than 254 alleles: a construction that
\* would give more is rejected, and get_idx_from_allele(allele, add=True) for
\* an unknown allele on a palette of 254 entries fails and leaves the palette
\* unchanged.
C10_AtMost254Alleles ==
    /\ pc = "variant" => Len(palette) <= MaxAlleles
    /\ (pc \in {"variant", "variant_rejected"} /\ 1 + Len(palette_log.alt) > MaxAlleles)
          => pc = "variant_rejected"
    /\ ( /\ pc = "variant"
         /\ palette_log.op = "get_idx_from_allele" /\ palette_log.add
         /\ palette_log.allele \notin {NoneAllele, NoAllele}
         /\ \A i \in 1..Len(palette_log.pre) : palette_log.pre[i] # palette_log.allele
         /\ Len(palette_log.pre) = MaxAlleles )
          => (~palette_log.ok /\ palette = palette_log.pre)

VariantCallReturned(op) == pc = "variant" /\ palette_log.op = op

KnownAllele(alleles, allele) == \E i \in 1..Len(alleles) : alleles[i] = allele

\* the allele argument is None or "."
MissingArg(allele) == allele = NoneAllele \/ allele = NoAllele

\* what get_idx_from_allele does for None or ".", for an allele of the
\* palette, and for an unknown allele with add=False
GetIdxWithoutAdd ==
    LET pre == palette_log.pre
        allele == palette_log.allele
        idx == palette_log.idx
    IN  /\ MissingArg(allele) =>
              palette_log.ok /\ idx = MISSING_IDX /\ palette = pre
        /\ (~MissingArg(allele) /\ KnownAllele(pre, allele)) =>
              /\ palette_log.ok /\ palette = pre
              /\ idx \in 0..(Len(pre) - 1) /\ pre[idx + 1] = allele
              /\ \A j \in 1..idx : pre[j] # allele
        /\ (~MissingArg(allele) /\ ~KnownAllele(pre, allele) /\ ~palette_log.add) =>
              ~palette_log.ok /\ palette = pre

\* the allele was appended, the new last index returned and every earlier
\* entry left at its index
AppendedAtEnd ==
    /\ palette_log.ok
    /\ Len(palette) = Len(palette_log.pre) + 1
    /\ palette_log.idx = Len(palette) - 1
    /\ palette[palette_log.idx + 1] = palette_log.allele
    /\ \A j \in 1..Len(palette_log.pre) : palette[j] = palette_log.pre[j]

\* C11: get_idx_from_allele(allele, add) returns MISSING_IDX for None or "."
\* and leaves the palette alone; returns the index of an allele of the
\* palette; fails and leaves the palette alone for an unknown allele with
\* add=False; and for an unknown allele with add=True appends the allele,
\* returns the new last index and leaves every earlier entry at its index.
C11_GetIdxFromAllele ==
    VariantCallReturned("get_idx_from_allele") =>
        /\ GetIdxWithoutAdd
        /\ ( /\ ~MissingArg(palette_log.allele)
             /\ ~KnownAllele(palette_log.pre, palette_log.allele)
             /\ palette_log.add ) => AppendedAtEnd

\* C11 with the full palette: as above, but an unknown allele with add=True is
\* appended when the palette has fewer than 254 entries, and on a palette of
\* 255 entries, the most the code lets a palette hold, the call fails and
\* leaves the palette alone.
C11_GetIdxFromAlleleUnlessFull ==
    VariantCallReturned("get_idx_from_allele") =>
        /\ GetIdxWithoutAdd
        /\ ( /\ ~MissingArg(palette_log.allele)
             /\ ~KnownAllele(palette_log.pre, palette_log.allele)
             /\ palette_log.add ) =>
              /\ Len(palette_log.pre) < MaxAlleles => AppendedAtEnd
              /\ Len(palette_log.pre) > MaxAlleles =>
                    ~palette_log.ok /\ palette = palette_log.pre

\* an unknown allele was added to a palette of several alleles
C11_Witness ==
    /\ VariantCallReturned("get_idx_from_allele")
    /\ palette_log.add /\ palette_log.ok
    /\ ~KnownAllele(palette_log.pre, palette_log.allele)
    /\ Len(palette_log.pre) >= 2
    /\ palette_log.idx = Len(palette_log.pre)

\* C12: get_allele_from_idx returns "." for MISSING_IDX, returns the palette
\* entry for every idx with 0 <= idx < len(alleles), an entry that
\* get_idx_from_allele maps back to idx, and fails for every other integer.
C12_GetAlleleFromIdx ==
    VariantCallReturned("get_allele_from_idx") =>
        LET idx == palette_log.idx
        IN  IF idx = MISSING_IDX
            THEN palette_log.ok /\ palette_log.allele = NoAllele
            ELSE IF idx \in 0..(Len(palette) - 1)
                 THEN /\ palette_log.ok /\ palette_log.allele = palette[idx + 1]
                      /\ get_idx_from_allele(palette, palette_log.allele, FALSE).idx = idx
                 ELSE ~palette_log.ok

-----------------------------------------------------------------------------
(* Claims about Genotype construction, rendering and comparison, checked   *)
(* under SpecGenotype                                                      *)

GenotypeCallReturned(op) == pc = "genotype" /\ palette_log.op = op

\* the alleles a make_genotype or make_genotype_from_str call was given
GivenAlleles ==
    IF palette_log.op = "make_genotype" THEN palette_log.args
    ELSE split(palette_log.gt_str, Sep)

\* C13: for k <= ploidy alleles that are all in the palette, make_genotype and
\* make_genotype_from_str return the Genotype whose allele_idxs are the
\* sorted indices of the alleles and ploidy - k MISSING_IDX; for k > ploidy
\* they fail.
C13_MakeGenotype ==
    (GenotypeCallReturned("make_genotype") \/ GenotypeCallReturned("make_genotype_from_str")) =>
        LET given == GivenAlleles
            k == Len(given)
            p == palette_log.ploidy
            pre == palette_log.pre
        IN  /\ k > p => ~palette_log.ok
            /\ (k <= p /\ \A i \in 1..k : KnownAllele(pre, given[i])) =>
                  /\ palette_log.ok
                  /\ palette_log.idxs =
                        sorted_idxs([i \in 1..k |-> list_index(pre, given[i])]
                                        \o [i \in 1..(p - k) |-> MISSING_IDX])

\* C14: make_genotype_from_str on the empty string returns the fully missing
\* Genotype and leaves the palette unchanged.
C14_EmptyStringIsMissing ==
    (GenotypeCallReturned("make_genotype_from_str") /\ palette_log.gt_str = <<>>) =>
        /\ palette_log.ok
        /\ palette_log.idxs = [i \in 1..palette_log.ploidy |-> MISSING_IDX]
        /\ palette = palette_log.pre

\* C15: a row built from a genotype string, rendered with str() and parsed
\* back with make_genotype_from_str of the same Variant, parses without an
\* error and has the allele indices it had before, whether it is fully
\* called, partially missing or fully missing.
C15_StringRoundTrip ==
    (GenotypeCallReturned("reparse") /\ palette_log.from_str) =>
        palette_log.ok /\ palette_log.idxs = palette_log.built

\* C16: every Genotype that was constructed has exactly ploidy allele_idxs,
\* sorted ascending, each MISSING_IDX or a valid index into the palette; and
\* Genotype(variant, allele_idxs) fails when given more than ploidy indices or
\* an index that is negative or past the end of the palette and not
\* MISSING_IDX.
C16_GenotypeCanonical ==
    /\ (pc = "genotype" /\ GenotypeMade) =>
          /\ Len(palette_log.idxs) = palette_log.ploidy
          /\ \A i \in 1..(Len(palette_log.idxs) - 1) :
                palette_log.idxs[i] <= palette_log.idxs[i + 1]
          /\ \A i \in 1..Len(palette_log.idxs) :
                \/ palette_log.idxs[i] = MISSING_IDX
                \/ palette_log.idxs[i] \in 0..(Len(palette) - 1)
    /\ GenotypeCallReturned("Genotype") =>
          LET given == palette_log.in_idxs
              invalid(idx) == idx # MISSING_IDX /\ (idx < 0 \/ idx >= Len(palette))
          IN  /\ (Len(given) > palette_log.ploidy \/ \E i \in 1..Len(given) : invalid(given[i]))
                    => ~palette_log.ok
              /\ palette_log.ok =>
                    \A idx \in GenotypeIdxInputs :
                        Cardinality({ i \in 1..Len(palette_log.idxs) : palette_log.idxs[i] = idx })
                          = Cardinality({ i \in 1..Len(given) : given[i] = idx })
                            + (IF idx = MISSING_IDX THEN palette_log.ploidy - Len(given) ELSE 0)

\* indices given out of order and fewer than the ploidy
C16_Witness ==
    /\ GenotypeCallReturned("Genotype") /\ palette_log.ok
    /\ palette_log.ploidy = 3 /\ Len(palette_log.in_idxs) = 2
    /\ palette_log.in_idxs[1] > palette_log.in_idxs[2]
    /\ palette_log.in_idxs[1] # MISSING_IDX

\* C17: two Genotypes of equal Variants with equal allele_idxs compare equal
\* and have equal hashes, whatever their scores; comparing (==, <, <=, >, >=)
\* Genotypes of unequal Variants raises.
C17_EqualityAndHash ==
    GenotypeCallReturned("compare") =>
        LET other == palette_log.other
            same_variant == Variant_eq(ThisVariant, other.variant)
        IN  /\ (same_variant /\ palette_log.idxs = other.idxs /\ palette_log.cmp = "eq") =>
                  palette_log.ok /\ palette_log.result
            /\ (same_variant /\ palette_log.idxs = other.idxs /\ palette_log.cmp = "hash") =>
                  palette_log.result
            /\ (~same_variant /\ palette_log.cmp # "hash") => ~palette_log.ok

-----------------------------------------------------------------------------
(* Claims about _concat_same_type, checked under SpecConcat *)

\* C18: _concat_same_type fails unless the inputs have the same Variant dtype
\* (it fails in particular when their Variants differ in id or in alleles);
\* when it succeeds the result has that dtype and its records are the
\* records of the inputs in input order.
C18_ConcatSameType ==
    (pc = "arrays" /\ last.op = "concat") =>
        LET first == arrays[last.array]
            second == arrays[last.other]
            v == variants[first.variant]
            w == variants[second.variant]
        IN  /\ v.id # w.id => ~last.ok
            /\ v.alleles # w.alleles => ~last.ok
            /\ last.ok <=> v = w
            /\ last.ok =>
                  LET result == arrays[Len(arrays)]
                  IN  /\ variants[result.variant] = v
                      /\ result.data = first.data \o second.data

\* two columns of two equal Variant objects were concatenated
C18_Witness ==
    /\ pc = "arrays" /\ last.op = "concat" /\ last.ok
    /\ last.array # last.other
    /\ arrays[last.array].variant # arrays[last.other].variant
    /\ arrays[last.array].data # arrays[last.other].data
    /\ Len(arrays[Len(arrays)].data) = 2 * MaxLen

-----------------------------------------------------------------------------
(* Claims about factorize and unique, checked under SpecGroup *)

\* the Genotypes of the rows of a column, as __getitem__ returns them
RowGenotypes(a) ==
    [k \in 1..Len(arrays[a].data) |->
        getitem(variants[arrays[a].variant].alleles, arrays[a].data[k]).idxs]

\* the Genotypes of the returned uniques
UniqueGenotypes ==
    [k \in 1..Len(last.uniques) |->
        getitem(variants[arrays[last.array].variant].alleles, last.uniques[k]).idxs]

MissingGenotype == <<MISSING_IDX, MISSING_IDX>>

\* the first row of the column that holds Genotype g
FirstRow(rows, g) == CHOOSE k \in 1..Len(rows) : rows[k] = g /\ \A j \in 1..(k - 1) : rows[j] # g

\* the uniques hold every Genotype of the rows but the missing one, each
\* once, in the order of their first rows
FirstSeenUniques(rows, uniques) ==
    /\ { uniques[k] : k \in 1..Len(uniques) }
          = { rows[k] : k \in 1..Len(rows) } \ {MissingGenotype}
    /\ \A i, j \in 1..Len(uniques) :
          i < j => /\ uniques[i] # uniques[j]
                   /\ FirstRow(rows, uniques[i]) < FirstRow(rows, uniques[j])

\* C19: factorize() and unique() return the distinct non-missing Genotypes of
\* the column once each in the order of first occurrence; the code of a row
\* is the position of its Genotype in the uniques, and na_sentinel for a
\* missing row.
C19_FirstSeenGroups ==
    (pc = "arrays" /\ last.op \in {"factorize", "unique"} /\ last.ok) =>
        LET rows == RowGenotypes(last.array)
        IN  /\ FirstSeenUniques(rows, UniqueGenotypes)
            /\ last.op = "factorize" =>
                  /\ Len(last.codes) = Len(rows)
                  /\ \A k \in 1..Len(rows) :
                        IF rows[k] = MissingGenotype
                        THEN last.codes[k] = last.na_sentinel
                        ELSE /\ last.codes[k] \in 0..(Len(UniqueGenotypes) - 1)
                             /\ UniqueGenotypes[last.codes[k] + 1] = rows[k]

-----------------------------------------------------------------------------
(* Claims about the encodings, checked under SpecEncode *)

\* the number of alternate alleles in a row
AltCopies(row) == Cardinality({ i \in 1..Len(row) : row[i] # 0 })

\* what the claim gives for one row of a diploid column with one alternate
\* allele
ExpectedEncoding(op, row) ==
    IF \E i \in 1..Len(row) : row[i] = MISSING_IDX THEN NA
    ELSE CASE op = "encode_additive" -> Value(AltCopies(row))
           [] op = "encode_dominant" -> Value(IF AltCopies(row) >= 1 THEN 1 ELSE 0)
           [] op = "encode_recessive" -> Value(IF AltCopies(row) = Len(row) THEN 1 ELSE 0)
           [] op = "encode_codominant" -> Value(<<"Ref", "Het", "Hom">>[AltCopies(row) + 1])

\* what the claim gives for the five-row column
ExpectedColumn(op) ==
    CASE op = "encode_additive" -> <<Value(0), Value(1), Value(2), NA, NA>>
      [] op = "encode_dominant" -> <<Value(0), Value(1), Value(1), NA, NA>>
      [] op = "encode_recessive" -> <<Value(0), Value(0), Value(1), NA, NA>>
      [] op = "encode_codominant" -> <<Value("Ref"), Value("Het"), Value("Hom"), NA, NA>>

EncodeOps == { "encode_additive", "encode_dominant", "encode_recessive", "encode_codominant" }

\* C20: on a diploid Variant with one alternate allele every encoding
\* succeeds and gives, row by row, the count of alternate copies (additive),
\* 1 iff some allele is alternate (dominant), 1 iff all are (recessive),
\* Ref/Het/Hom (codominant), and the missing value when any allele of the row
\* is missing; the five-row column encodes to the four listed columns.
C20_Encodings ==
    (pc = "arrays" /\ last.op \in EncodeOps
        /\ variants[1].ploidy = 2 /\ Len(variants[1].alleles) = 2) =>
        LET data == arrays[last.array].data
        IN  /\ last.ok
            /\ Len(last.encoded) = Len(data)
            /\ \A k \in 1..Len(data) : last.encoded[k] = ExpectedEncoding(last.op, data[k])
            /\ data = EncodingColumn => last.encoded = ExpectedColumn(last.op)

\* the five-row column was encoded
C20_Witness ==
    /\ pc = "arrays" /\ last.op = "encode_recessive" /\ last.ok
    /\ variants[1].ploidy = 2 /\ Len(variants[1].alleles) = 2
    /\ arrays[last.array].data = EncodingColumn
    /\ last.encoded = <<Value(0), Value(0), Value(1), NA, NA>>

\* the call failed and produced no encoded output
EncodingFailed == ~last.ok /\ last.encoded = <<>>

\* C21: every encoding fails, with no output, when the palette size is not
\* 2, and encode_codominant also fails when the ploidy is not 2.
C21_FailsUnlessOneAlt ==
    (pc = "arrays" /\ last.op \in EncodeOps) =>
        /\ Len(variants[1].alleles) # 2 => EncodingFailed
        /\ (last.op = "encode_codominant" /\ variants[1].ploidy # 2) => EncodingFailed

\* C21 as the code has it: every encoding fails, with no output, when the
\* palette has more than 2 alleles, and encode_codominant also fails when the
\* ploidy is not 2; every other call succeeds, a palette of the reference
\* allele alone included.
C21_FailsWithExtraAlt ==
    (pc = "arrays" /\ last.op \in EncodeOps) =>
        /\ Len(variants[1].alleles) > 2 => EncodingFailed
        /\ (last.op = "encode_codominant" /\ variants[1].ploidy # 2) => EncodingFailed
        /\ (Len(variants[1].alleles) <= 2
              /\ (last.op = "encode_codominant" => variants[1].ploidy = 2))
           => (last.ok /\ Len(last.encoded) = Len(arrays[last.array].data))

\* an encoding of a column with two alternate alleles failed, and
\* encode_codominant of a triploid column with one alternate allele failed
C21_Witness ==
    /\ pc = "arrays" /\ EncodingFailed
    /\ Len(arrays[last.array].data) > 0
    /\ \/ last.op = "encode_dominant" /\ Len(variants[1].alleles) = 3
       \/ last.op = "encode_codominant" /\ Len(variants[1].alleles) = 2
             /\ variants[1].ploidy = 3

-----------------------------------------------------------------------------
(* Claims about encode_weighted, checked under SpecEncode *)

\* the allele is in the palette of the column's Variant
InPalette(allele) ==
    \E i \in 1..Len(variants[1].alleles) : variants[1].alleles[i] = allele

\* the alleles a row holds, "." for a missing one
RowAlleles(row) ==
    [i \in 1..Len(row) |->
        IF row[i] = MISSING_IDX THEN NoAllele ELSE variants[1].alleles[row[i] + 1]]

\* what the claim gives for one row of a diploid column
ExpectedWeight(row, alpha_value, ref_allele, alt_allele) ==
    LET held == RowAlleles(row)
    IN  IF held = <<ref_allele, ref_allele>> THEN Value(Zero)
        ELSE IF held = <<alt_allele, alt_allele>> THEN Value(One)
        ELSE IF held \in { <<ref_allele, alt_allele>>, <<alt_allele, ref_allele>> }
             THEN Value(alpha_value)
        ELSE NA

\* C22: encode_weighted fails when ref_allele or alt_allele is not in the
\* palette; otherwise a row of a diploid column gets 0.0 when homozygous
\* ref_allele, 1.0 when homozygous alt_allele, alpha when it holds the pair,
\* and the missing value in every other case, rows with a missing allele
\* included.
C22_EncodeWeighted ==
    (pc = "arrays" /\ last.op = "encode_weighted" /\ variants[1].ploidy = 2
        /\ last.ref_allele # last.alt_allele) =>
        LET data == arrays[last.array].data
        IN  IF ~InPalette(last.ref_allele) \/ ~InPalette(last.alt_allele)
            THEN ~last.ok
            ELSE /\ last.ok
                 /\ Len(last.encoded) = Len(data)
                 /\ \A k \in 1..Len(data) :
                       last.encoded[k] = ExpectedWeight(data[k], last.alpha_value,
                                                        last.ref_allele, last.alt_allele)

-----------------------------------------------------------------------------
(* Claims about the statistics of a column, checked under SpecInfo *)

\* the allele observations of the column that are not missing
Observations ==
    LET entries == flatten(arrays[1].data)
    IN  { i \in 1..Len(entries) : entries[i] # MISSING_IDX }

\* the number of observations of the allele with index idx
Observed(idx) ==
    Cardinality({ i \in Observations : flatten(arrays[1].data)[i] = idx })

\* the largest count among the alternate alleles, 0 when there is none
LargestAltCount ==
    LET counts == { Observed(idx) : idx \in 1..(Len(variants[1].alleles) - 1) } \cup {0}
    IN  CHOOSE c \in counts : \A d \in counts : d <= c

\* C23: maf is c/t for t the number of non-missing allele observations and c
\* the largest count of an alternate allele among them; it is NaN when t = 0
\* and 0.0 when every non-missing allele is the reference; on [AA, TT, AT] it
\* is 1/2.
C23_Maf ==
    (pc = "arrays" /\ last.op = "maf") =>
        LET t == Cardinality(Observations)
            c == LargestAltCount
        IN  /\ t = 0 => last.result = NaN
            /\ t > 0 => /\ ~last.result.nan
                        /\ last.result.num * t = c * last.result.den
            /\ arrays[1].data = << <<0, 0>>, <<1, 1>>, <<0, 1>> >>
                  => (~last.result.nan /\ 2 * last.result.num = last.result.den)

\* the rows of the column that are free of missing alleles
CompleteRows ==
    { k \in 1..Len(arrays[1].data) :
        \A i \in 1..Len(arrays[1].data[k]) : arrays[1].data[k][i] # MISSING_IDX }

\* the number of observations of allele idx in the complete rows
CompleteCount(idx) ==
    LET RECURSIVE upto(_)
        upto(k) ==
            IF k = 0 THEN 0
            ELSE upto(k - 1)
                   + (IF k \in CompleteRows
                      THEN Cardinality({ i \in 1..Len(arrays[1].data[k]) :
                                           arrays[1].data[k][i] = idx })
                      ELSE 0)
    IN  upto(Len(arrays[1].data))

\* the alleles of the complete rows: from the reference to the highest index
\* that occurs
CountedAlleles ==
    { idx \in 0..(Len(variants[1].alleles) - 1) :
        \E j \in idx..(Len(variants[1].alleles) - 1) : CompleteCount(j) > 0 }

\* some expected count 2*f_i*f_j*N (i < j) or f_i*f_i*N is below 5, for N
\* complete rows and f_i = CompleteCount(i) / 2N
SomeExpectedBelowFive ==
    LET N == Cardinality(CompleteRows)
    IN  \E i, j \in CountedAlleles :
           \/ i < j /\ CompleteCount(i) * CompleteCount(j) < 5 * 2 * N
           \/ i = j /\ CompleteCount(i) * CompleteCount(i) < 5 * 4 * N

\* every allele of the complete rows is the reference
AllReference == \A idx \in CountedAlleles : idx = 0

\* C24: hwe_pval is NaN when the ploidy is not 2, when fewer than 2 rows are
\* free of missing alleles, and when some Hardy-Weinberg expected count of
\* those rows is below 5.
C24_HweNotComputable ==
    (pc = "arrays" /\ last.op = "hwe_pval") =>
        /\ variants[1].ploidy # 2 => last.result = HweNaN
        /\ Cardinality(CompleteRows) < 2 => last.result = HweNaN
        /\ (variants[1].ploidy = 2 /\ SomeExpectedBelowFive) => last.result = HweNaN

\* C24 as the code has it: as above, except that at least 2 complete rows of
\* a diploid column that hold the reference allele only give 1.0 whatever
\* their expected counts.
C24_HweNotComputableOrAllReference ==
    (pc = "arrays" /\ last.op = "hwe_pval") =>
        /\ variants[1].ploidy # 2 => last.result = HweNaN
        /\ Cardinality(CompleteRows) < 2 => last.result = HweNaN
        /\ (variants[1].ploidy = 2 /\ Cardinality(CompleteRows) >= 2 /\ AllReference)
              => last.result = HweOne
        /\ (variants[1].ploidy = 2 /\ SomeExpectedBelowFive /\ ~AllReference)
              => last.result = HweNaN

\* NaN came from an expected count below 5: 20 complete rows with both
\* alleles, and rows with missing alleles beside them
C24_Witness ==
    /\ pc = "arrays" /\ last.op = "hwe_pval" /\ last.result = HweNaN
    /\ variants[1].ploidy = 2
    /\ Cardinality(CompleteRows) = 20 /\ Cardinality(CompleteRows) < Len(arrays[1].data)
    /\ CompleteCount(0) > 0 /\ CompleteCount(1) > 0
    /\ SomeExpectedBelowFive
    /\ CompleteCount(1) * CompleteCount(1) >= 4 * Cardinality(CompleteRows)

-----------------------------------------------------------------------------
(* Claims about the dtype string, checked under SpecDtype *)

\* C25: for every valid Variant v (any chromosome including none, any ploidy,
\* any number of alternate alleles including zero, score present or absent)
\* construct_from_string(str(GenotypeDtype(v))) succeeds and gives a Variant
\* equal to v in chromosome, position, id, ref, alt, ploidy and score.
C25_DtypeStringRoundTrip ==
    (pc = "arrays" /\ last.op = "construct_from_string"
        /\ last.string = GenotypeDtype_str(variants[1])) =>
        /\ last.ok
        /\ Variant_eq_all(last.result, variants[1])

-----------------------------------------------------------------------------
(* Further claims about the PLINK codec, checked under SpecPlink *)

\* C26: to_plink has no side effects on its input: when
\* gt_array_to_plink_bits has returned (or raised), the allele indices of the
\* column are what they were before the call, heterozygous and missing rows
\* included.  This holds when GenotypeArray.allele_idxs returns an array of
\* its own and fails (for a column with a heterozygous or a missing row) when
\* it returns the column's storage.
C26_NoSideEffects ==
    pc \in {"written", "write_failed", "decoded"} => gt_rows = input_rows

\* a row with at least one uncalled allele
HasMissing(row) == row[1] = MISSING_IDX \/ row[2] = MISSING_IDX

\* C30: every row that contains at least one MISSING_IDX entry, the partially
\* missing rows (0,MISSING) and (1,MISSING) included, is written with the
\* missing code 01, which decodes to a missing genotype and never to (0,0),
\* (0,1) or (1,1).
C30_UncalledStaysMissing ==
    pc = "written" =>
        \A k \in 0..(Len(input_rows) - 1) :
            HasMissing(input_rows[k + 1]) =>
                /\ CodeString(SampleCode(plink_bits.bytes, k)) = "01"
                /\ create_gt_array(Len(input_rows), plink_bits.bytes)[k + 1]
                      = <<MISSING_IDX, MISSING_IDX>>

-----------------------------------------------------------------------------
(* Further claims about the GenotypeArray operations, checked under        *)
(* SpecArrays                                                              *)

\* the allele a stored index denotes under a palette
HeldAllele(alleles, idx) ==
    IF idx = MISSING_IDX THEN "missing"
    ELSE IF idx + 1 \in 1..Len(alleles) THEN alleles[idx + 1]
    ELSE "invalid"

\* C27: after b = a.copy() or b = a.take(...), b.set_reference(x) leaves
\* unchanged the alleles every row of a decodes to through a's Variant, and
\* a's reference allele.
C27_CopyIsolated ==
    SetRefReturned =>
        \A a \in 1..Len(arrays) :
            (arrays[last.array].origin = a /\ a # last.array) =>
                LET now == variants[arrays[a].variant].alleles
                    before == IF arrays[a].variant = arrays[last.array].variant
                              THEN last.pre_alleles ELSE now
                IN  /\ now[1] = before[1]
                    /\ \A k \in 1..Len(arrays[a].data), i \in 1..2 :
                          HeldAllele(now, arrays[a].data[k][i])
                              = HeldAllele(before, arrays[a].data[k][i])

-----------------------------------------------------------------------------
(* Further claims about set_reference, checked under SpecSetRef *)

\* GenotypeArray.__eq__ with a Genotype of the same Variant, for one row
RowEqualsGenotype(row, g) == row[1] = g.idxs[1] /\ row[2] = g.idxs[2]

\* the row and the Genotype hold the same alleles
SameAlleles(row, g) == row = g.idxs \/ <<row[2], row[1]>> = g.idxs

\* C28: after any sequence of set_reference calls on an array built from
\* Genotypes the indices of every row are sorted ascending, and the array's
\* comparison with a Genotype of its Variant is true exactly for the rows that
\* hold the same alleles.
C28_RowsStayCanonical ==
    pc = "arrays" =>
        \A a \in 1..Len(arrays) : \A k \in 1..Len(arrays[a].data) :
            /\ arrays[a].data[k][1] <= arrays[a].data[k][2]
            /\ \A g \in GenotypesOf(variants, arrays[a].variant) :
                  RowEqualsGenotype(arrays[a].data[k], g) <=> SameAlleles(arrays[a].data[k], g)

-----------------------------------------------------------------------------
(* Claims about to_plink, checked under SpecToPlink *)

SomeColumnNotBiallelic ==
    \E c \in 1..Len(arrays) : Len(variants[arrays[c].variant].alleles) # 2

\* C29: when some genotype column of the data has a variant whose palette
\* size is not 2, to_plink fails and none of the .fam, .bim and .bed files
\* has been written.
C29_AllOrNothing ==
    (pc \in {"saved", "save_failed"} /\ SomeColumnNotBiallelic) =>
        /\ pc = "save_failed"
        /\ num_samples = NotWritten
        /\ variant_list = NotWritten
        /\ bed_file = NotWritten

====
